---- MODULE Spec2Model ----
(***************************************************************************)
(* Compose tracking service (cts): the store behind cts/models.py, the     *)
(* request handlers of cts/views.py that mutate it, and the staged-event   *)
(* buffer of cts/events.py.  Every request thread owns a SQLAlchemy        *)
(* session; the variables of the store hold COMMITTED rows only, so each   *)
(* state of the model is a committed state of the database.                *)
(***************************************************************************)
EXTENDS Integers, Sequences, FiniteSets, TLC

\* ------------------------------------------------------------- bounds
\* Largest respin a caller supplies in its ComposeInfo.
MaxStartRespin == 1
\* Integrity errors the database raises for a reason other than a duplicate.
MaxFaults == 1

Threads == {"t1", "t2"}

NULL == "NULL"
\* A null id / null release_date_respin column.
NoId == <<>>

Releases == {"F"}
Dates == {"d1"}
\* compose.type: nightly has type_suffix ".n", production has none.
Types == {"nightly", "production"}
UserData == {NULL, "ud"}
\* Users with a row in the users table at start; "ghost" and "bob" have none.
InitUsers == {"odcs", "admin"}

\* Each thread serves one request, as a WSGI worker thread does with its own
\* scoped session; t2's request arrives after t1's has arrived.
After(t) == IF t = "t2" THEN {"t1"} ELSE {}

VARIABLES
    composes,         \* table composes, rows in insertion order
    parent_links,     \* table composes_to_composes: <<parent id, child id>>
    users,            \* table users (usernames)
    compose_changes,  \* table compose_changes, rows in insertion order
    tags,             \* table tags, rows in insertion order
    tags_to_composes, \* table tags_to_composes, rows in insertion order
    grants,           \* tables taggers, untaggers, tagger_groups, untagger_groups
    tag_changes,      \* table tag_changes, rows in insertion order
    cached_composes,  \* events._cached_composes: entries [key, msgs] in dict order
    published,        \* batches handed to messaging.publish, in order
    emitted,          \* history: the events staged since the last drain, in order
    log,              \* the exceptions logged by the publication path
    backend,          \* conf.messaging_backend
    taken,            \* the number of submitted sends the executor's worker has run
    bus,              \* what producer.send has put on the message bus, in order
    slept,            \* the time.sleep calls, in order
    retry,            \* one call of _retry_with_backoff: its arguments and outcome
    times,            \* ComposeChange.time of the rows of compose_changes, where kept
    scan,             \* one run of Compose.retag_stale_composes: clock, tags to go
    lock,             \* events._cache_lock: the thread that holds it, or NULL
    hook,             \* per thread: the after_flush hook it is running
    lost,             \* history: the events in memory when the process stopped
    pc, req, ci, compose, attempts, res,   \* per request thread
    pend,             \* per thread: what its session holds unflushed
    alone,            \* history: no other thread inserted a compose during the call
    prior,            \* history: the threads that had returned when the call began
    wrote,            \* history: the audit rows each thread's request appended
    compose_muts,     \* history: the committed mutations of composes
    tag_muts,         \* history: the committed mutations of tags
    faults

tagVars == <<tags, tags_to_composes, grants, tag_changes>>
storeVars == <<composes, parent_links, users, compose_changes, tagVars>>
eventVars == <<cached_composes, published, emitted, log>>
procVars == <<lock, hook, lost>>
msgVars == <<backend, taken, bus, slept, retry, times, scan, procVars>>
threadVars == <<pc, req, ci, compose, attempts, res, pend>>
histVars == <<alone, prior>>
logVars == <<wrote, compose_muts, tag_muts>>
vars == <<storeVars, eventVars, threadVars, histVars, logVars, faults, msgVars>>

\* ------------------------------------------------------------- ComposeInfo
\* productmd's ComposeInfo.create_compose_id: release, date, type suffix, respin.
create_compose_id(c) == <<c.release, c.date, c.type, c.respin>>

\* f"{release}-{date}.{respin}": the compose type is not part of it.
ReleaseDateRespin(c) == <<c.release, c.date, c.respin>>

\* ------------------------------------------------------------- store helpers
ComposeIds == {composes[i].id : i \in 1..Len(composes)}

\* Compose.query.filter(Compose.id == id).first()
FindCompose(id) == \E i \in 1..Len(composes) : composes[i].id = id

\* Compose.query.filter((id == ...) | (release_date_respin == ...)).first()
ExistingCompose(id, rdr) ==
    \E i \in 1..Len(composes) :
        \/ composes[i].id = id
        \/ composes[i].release_date_respin = rdr

\* Mutants: the table without its unique release_date_respin, and without any
\* unique constraint.
UniqueViolation_NoRdr(row) ==
    \E i \in 1..Len(composes) : composes[i].id = row.id

UniqueViolation_None(row) == FALSE

\* The constraints of table composes: primary key id, unique release_date_respin
\* (a null release_date_respin never collides).
UniqueViolation(row) ==
    \E i \in 1..Len(composes) :
        \/ composes[i].id = row.id
        \/ /\ row.release_date_respin # NoId
           /\ composes[i].release_date_respin = row.release_date_respin

\* Mutant: a lookup that takes every username for a known user, so that
\* get_or_create never creates one.
find_user_by_name_Found(username) == TRUE

\* User.find_user_by_name
find_user_by_name(username) == username \in users

\* ------------------------------------------------------------- events
Msg(event, id) == [event |-> event, compose |-> id, tag |-> NULL, user_data |-> NULL]

\* _cached_composes[comp.id].append(msg), creating the key on first use.
StageOne(cache, m) ==
    IF \E i \in 1..Len(cache) : cache[i].key = m.compose
    THEN [i \in 1..Len(cache) |->
            IF cache[i].key = m.compose
            THEN [cache[i] EXCEPT !.msgs = Append(@, m)]
            ELSE cache[i]]
    ELSE Append(cache, [key |-> m.compose, msgs |-> <<m>>])

RECURSIVE Stage(_, _)
Stage(cache, ms) ==
    IF ms = <<>> THEN cache ELSE Stage(StageOne(cache, Head(ms)), Tail(ms))

\* Mutant: a drain that takes the messages of the first key only.
Drain_First(cache) == IF cache = <<>> THEN <<>> ELSE Head(cache).msgs

\* msgs += compose_msgs for every value of the dict.
RECURSIVE Drain(_)
Drain(cache) ==
    IF cache = <<>> THEN <<>> ELSE Head(cache).msgs \o Drain(Tail(cache))

\* Every message handed to the publisher, batch after batch, and every message
\* in the buffer.
RECURSIVE Flat(_)
Flat(batches) == IF batches = <<>> THEN <<>> ELSE Head(batches) \o Flat(Tail(batches))
Handed == Flat(published)
Staged == Drain(cached_composes)

\* messaging._get_messaging_backend as messaging.publish calls it: the exception
\* for a backend name that is neither empty nor "rhmsg", NULL without one.
publish_raises == IF backend \in {NULL, "rhmsg"} THEN NULL ELSE "ValueError"

\* Mutant: the buffer is cleared only when messaging.publish returned.
CommitEvents_KeepOnError(ms) ==
    LET msgs == Drain(Stage(cached_composes, ms))
        raised == msgs # <<>> /\ publish_raises # NULL
    IN /\ published' = IF msgs = <<>> THEN published ELSE Append(published, msgs)
       /\ log' = IF raised THEN Append(log, "Cannot publish message to bus.") ELSE log
       /\ cached_composes' = IF raised THEN Stage(cached_composes, ms) ELSE <<>>
       /\ emitted' = IF raised THEN emitted \o ms ELSE <<>>

\* after_flush then after_commit of one session.commit(): the events of the flush
\* are staged, every staged event is drained into one batch, the buffer is cleared.
CommitEvents(ms) ==
    LET msgs == Drain(Stage(cached_composes, ms))
    IN /\ published' = IF msgs = <<>> THEN published ELSE Append(published, msgs)
       /\ log' = IF msgs # <<>> /\ publish_raises # NULL
                 THEN Append(log, "Cannot publish message to bus.")
                 ELSE log
       /\ cached_composes' = <<>>
       /\ emitted' = <<>>

\* All orders in which a set can be iterated.
RECURSIVE Orders(_)
Orders(S) ==
    IF S = {} THEN {<<>>}
    ELSE UNION {{<<x>> \o o : o \in Orders(S \ {x})} : x \in S}

\* ------------------------------------------------------------- Init
InitCompose(c, rdr) ==
    [id |-> create_compose_id(c), date |-> c.date, respin |-> c.respin,
     type |-> c.type, release |-> c.release, release_date_respin |-> rdr,
     builder |-> "odcs", compose_url |-> NULL, respin_of_id |-> NoId]

\* A row created by Compose.create, and a row imported before the
\* release_date_respin column existed (null release_date_respin).
RegularCi == [release |-> "F", date |-> "d1", type |-> "nightly", respin |-> 1]
LegacyCi == [release |-> "F", date |-> "d1", type |-> "production", respin |-> 0]
MissingId == <<"F", "d0", "nightly", 0>>

\* A ComposeChange row; the message is null for "created".
ComposeChangeRow(id, action, user, message, ud) ==
    [compose_id |-> id, action |-> action, user |-> user,
     message |-> message, user_data |-> ud]

CreatedRow(id, user, ud) == ComposeChangeRow(id, "created", user, NoId, ud)

\* 'User "%s" added "%s" tag.' and 'User "%s" removed "%s" tag.'
TagMessage(user, verb, tag_name) == <<"User", user, verb, tag_name, "tag">>

\* A TagChange row.
TagChangeRow(tag_id, action, user, message, ud) ==
    [tag_id |-> tag_id, action |-> action, user |-> user,
     message |-> message, user_data |-> ud]

\* '<Tagger|Untagger> permission <granted to|removed from> <user|group> "%s".'
GrantMessage(perm, verb, kind, who) == <<perm, verb, kind, who>>

\* One committed mutation: its subject, its kind, the thread that made it.
Mut(subject, kind, by) == [subject |-> subject, kind |-> kind, by |-> by]

Perms == {"tagger", "untagger"}
InitTag == [id |-> 1, name |-> "periodic", description |-> "d", documentation |-> "doc"]

InitComposes ==
    << InitCompose(RegularCi, ReleaseDateRespin(RegularCi)),
       InitCompose(LegacyCi, NoId) >>

NoReq == [op |-> "none"]
NoCi == [release |-> NULL, date |-> NULL, type |-> NULL, respin |-> 0, id |-> NoId]
NoRes == [status |-> "none", detail |-> NoId]

NoRetry == [status |-> "none"]

NoScan == [status |-> "none"]
NoHook == [todo |-> <<>>, flush |-> <<>>, next |-> "idle"]

\* The tables before the first request.
InitTables ==
    /\ composes = InitComposes
    /\ parent_links = {}
    /\ users = InitUsers
    /\ compose_changes =
          << CreatedRow(create_compose_id(RegularCi), "odcs", NULL),
             CreatedRow(create_compose_id(LegacyCi), "odcs", NULL),
             ComposeChangeRow(create_compose_id(RegularCi), "tagged", "odcs",
                              TagMessage("odcs", "added", "periodic"), NULL) >>
    /\ tags = <<InitTag>>
    /\ tags_to_composes = <<[compose_id |-> create_compose_id(RegularCi), tag_id |-> 1]>>
    /\ grants = [p \in Perms |->
                   [users |-> IF p = "tagger" THEN <<[who |-> "odcs", tag_id |-> 1]>>
                                              ELSE <<>>,
                    groups |-> <<>>]]
    /\ tag_changes =
          << TagChangeRow(1, "created", "admin", NoId, NULL),
             TagChangeRow(1, "add_tagger", "admin",
                          GrantMessage("tagger", "granted", "user", "odcs"), NULL) >>
    /\ compose_muts = << Mut(create_compose_id(RegularCi), "created", "init"),
                         Mut(create_compose_id(LegacyCi), "created", "init"),
                         Mut(create_compose_id(RegularCi), "tagged", "init") >>
    /\ tag_muts = << Mut(1, "created", "init"), Mut(1, "add_tagger", "init") >>
    /\ times = <<>>

\* The buffer, the request threads and the messaging worker at start.
InitThreads ==
    /\ pend = [t \in Threads |-> <<>>]
    /\ wrote = [t \in Threads |-> <<>>]
    /\ cached_composes = <<>>
    /\ published = <<>>
    /\ emitted = <<>>
    /\ pc = [t \in Threads |-> "idle"]
    /\ req = [t \in Threads |-> NoReq]
    /\ ci = [t \in Threads |-> NoCi]
    /\ compose = [t \in Threads |-> NoId]
    /\ attempts = [t \in Threads |-> 0]
    /\ res = [t \in Threads |-> NoRes]
    /\ alone = [t \in Threads |-> TRUE]
    /\ prior = [t \in Threads |-> {}]
    /\ faults = 0
    /\ log = <<>>
    /\ taken = 0
    /\ bus = <<>>
    /\ slept = <<>>
    /\ scan = NoScan
    /\ lock = NULL
    /\ hook = [t \in Threads |-> NoHook]
    /\ lost = <<>>

\* The store, the buffer and the threads before the first request.
InitService == InitTables /\ InitThreads

\* The service as deployed: messages go to the bus through rhmsg.
Init ==
    /\ InitService
    /\ backend = "rhmsg"
    /\ retry = NoRetry

\* ------------------------------------------------------------- Compose.create
\* The id of an existing compose, as a caller passes it in parent_compose_ids or
\* respin_of.
GoodId == create_compose_id(RegularCi)

CreateCall(ty, r, b, stale, ps, ro) ==
    [type |-> ty, respin |-> r, builder |-> b, stale |-> stale,
     parent_compose_ids |-> ps, respin_of |-> ro]

\* The plain call with every type and starting respin; the call whose
\* compose.id is not the computed one; and, for one type and respin, the calls
\* that differ from the plain one in the builder (no users row), in the parents
\* or in respin_of.
CreateCalls ==
    {CreateCall(ty, r, "odcs", FALSE, <<>>, NoId) :
        ty \in Types, r \in 0..MaxStartRespin}
    \cup {CreateCall("nightly", r, "odcs", TRUE, <<>>, NoId) : r \in 0..MaxStartRespin}
    \cup {CreateCall("nightly", 0, "ghost", FALSE, <<>>, NoId),
          CreateCall("nightly", 0, "odcs", FALSE, <<GoodId>>, NoId),
          CreateCall("nightly", 0, "odcs", FALSE, <<MissingId>>, NoId),
          CreateCall("nightly", 0, "odcs", FALSE, <<>>, MissingId),
          CreateCall("nightly", 0, "odcs", FALSE, <<GoodId>>, GoodId)}

InCreate(t) == pc[t] \in {"c_resolve", "c_insert", "c_except", "c_links", "c_audit"}

Returned == {t \in Threads : pc[t] = "done"}

Arrive(t) ==
    /\ pc[t] = "idle"
    /\ \A u \in After(t) : pc[u] # "idle"
    /\ prior' = [prior EXCEPT ![t] = Returned]

\* ComposesListAPI.post / a direct call of Compose.create: the arguments.
BeginCreate(t) ==
    /\ Arrive(t)
    /\ \E rel \in Releases, d \in Dates, a \in CreateCalls :
        LET c == [release |-> rel, date |-> d, type |-> a.type, respin |-> a.respin]
            entry == [release |-> rel, date |-> d, type |-> a.type,
                      respin |-> a.respin,
                      id |-> IF a.stale THEN MissingId ELSE create_compose_id(c)]
        IN /\ req' = [req EXCEPT ![t] =
                        [op |-> "create", builder |-> a.builder, ci |-> entry,
                         parent_compose_ids |-> a.parent_compose_ids,
                         respin_of |-> a.respin_of]]
           /\ ci' = [ci EXCEPT ![t] = entry]
    /\ pc' = [pc EXCEPT ![t] = "c_resolve"]
    /\ UNCHANGED <<storeVars, eventVars, compose, attempts, res, pend, alone,
                   logVars, faults>>
    /\ UNCHANGED msgVars

Raise(t, status, detail) ==
    /\ pc' = [pc EXCEPT ![t] = "done"]
    /\ res' = [res EXCEPT ![t] = [status |-> status, detail |-> detail]]

\* Mutant: the lookups are skipped and the insert goes ahead.
CreateResolve_NoCheck(t) ==
    /\ pc[t] = "c_resolve"
    /\ pc' = [pc EXCEPT ![t] = "c_insert"]
    /\ UNCHANGED <<storeVars, eventVars, req, ci, compose, attempts, res, pend,
                   histVars, logVars, faults>>
    /\ UNCHANGED msgVars

\* models.py 581-601: the parents and the respin_of compose are looked up first.
CreateResolve(t) ==
    /\ pc[t] = "c_resolve"
    /\ LET ps == req[t].parent_compose_ids
           missing == {i \in 1..Len(ps) : ~FindCompose(ps[i])}
       IN IF missing # {}
          THEN Raise(t, "ValueError",
                     <<"Cannot find parent compose with id", ps[CHOOSE i \in missing :
                            \A j \in missing : i <= j]>>)
          ELSE IF req[t].respin_of # NoId /\ ~FindCompose(req[t].respin_of)
          THEN Raise(t, "ValueError",
                     <<"Cannot find respin_of compose with id", req[t].respin_of>>)
          ELSE /\ pc' = [pc EXCEPT ![t] = "c_insert"]
               /\ res' = res
    /\ UNCHANGED <<storeVars, eventVars, req, ci, compose, attempts, pend,
                   histVars, logVars, faults>>
    /\ UNCHANGED msgVars

\* kwargs of models.py 607-627.
NewCompose(t) ==
    [id |-> create_compose_id(ci[t]), date |-> ci[t].date,
     respin |-> ci[t].respin, type |-> ci[t].type, release |-> ci[t].release,
     release_date_respin |-> ReleaseDateRespin(ci[t]),
     builder |-> req[t].builder, compose_url |-> NULL, respin_of_id |-> NoId]

\* models.py 628-636: session.add(compose); session.commit(), or the rollback.
CreateInsert(t) ==
    /\ pc[t] = "c_insert"
    /\ attempts' = [attempts EXCEPT ![t] = @ + 1]
    /\ LET row == NewCompose(t)
       IN \/ /\ ~UniqueViolation(row)
             /\ composes' = Append(composes, row)
             /\ compose_muts' = Append(compose_muts, Mut(row.id, "created", t))
             /\ compose' = [compose EXCEPT ![t] = row.id]
             /\ CommitEvents(<<Msg("compose-created", row.id)>>)
             /\ pc' = [pc EXCEPT ![t] = "c_links"]
             /\ alone' = [u \in Threads |->
                            IF u # t /\ InCreate(u) THEN FALSE ELSE alone[u]]
             /\ UNCHANGED faults
          \/ /\ UniqueViolation(row)
             /\ pc' = [pc EXCEPT ![t] = "c_except"]
             /\ UNCHANGED <<composes, compose, eventVars, alone, compose_muts, faults>>
          \/ /\ ~UniqueViolation(row)
             /\ faults < MaxFaults
             /\ faults' = faults + 1
             /\ pc' = [pc EXCEPT ![t] = "c_except"]
             /\ UNCHANGED <<composes, compose, eventVars, alone, compose_muts>>
    /\ UNCHANGED <<parent_links, users, compose_changes, tagVars, req, ci, res,
                   pend, prior, wrote, tag_muts>>
    /\ UNCHANGED msgVars

\* Mutants: the handler that skips a respin, and the one that retries without
\* looking for the existing compose.
CreateExcept_Skip(t) ==
    /\ pc[t] = "c_except"
    /\ IF ~ExistingCompose(create_compose_id(ci[t]), ReleaseDateRespin(ci[t]))
       THEN /\ Raise(t, "IntegrityError", create_compose_id(ci[t]))
            /\ ci' = ci
       ELSE /\ ci' = [ci EXCEPT ![t] =
                       [@ EXCEPT !.respin = @ + 2,
                                 !.id = create_compose_id(
                                            [ci[t] EXCEPT !.respin = @ + 2])]]
            /\ pc' = [pc EXCEPT ![t] = "c_insert"]
            /\ res' = res
    /\ UNCHANGED <<storeVars, eventVars, req, compose, attempts, pend, histVars,
                   logVars, faults>>
    /\ UNCHANGED msgVars

CreateExcept_AlwaysRetry(t) ==
    /\ pc[t] = "c_except"
    /\ ci' = [ci EXCEPT ![t] =
                [@ EXCEPT !.respin = @ + 1,
                          !.id = create_compose_id([ci[t] EXCEPT !.respin = @ + 1])]]
    /\ pc' = [pc EXCEPT ![t] = "c_insert"]
    /\ res' = res
    /\ UNCHANGED <<storeVars, eventVars, req, compose, attempts, pend, histVars,
                   logVars, faults>>
    /\ UNCHANGED msgVars

\* models.py 637-649: the existing compose is looked up again; without one the
\* error is re-raised, with one the respin is raised and the id recomputed.
CreateExcept(t) ==
    /\ pc[t] = "c_except"
    /\ IF ~ExistingCompose(create_compose_id(ci[t]), ReleaseDateRespin(ci[t]))
       THEN /\ Raise(t, "IntegrityError", create_compose_id(ci[t]))
            /\ ci' = ci
       ELSE /\ ci' = [ci EXCEPT ![t] =
                       [@ EXCEPT !.respin = @ + 1,
                                 !.id = create_compose_id(
                                            [ci[t] EXCEPT !.respin = @ + 1])]]
            /\ pc' = [pc EXCEPT ![t] = "c_insert"]
            /\ res' = res
    /\ UNCHANGED <<storeVars, eventVars, req, compose, attempts, pend, histVars,
                   logVars, faults>>
    /\ UNCHANGED msgVars

\* composes[i] with its respin_of_id column set.
\* Mutant: the respin_of assignment is lost.
SetRespinOf_Skip(id, ro) == composes

SetRespinOf(id, ro) ==
    [i \in 1..Len(composes) |->
        IF composes[i].id = id /\ ro # NoId
        THEN [composes[i] EXCEPT !.respin_of_id = ro]
        ELSE composes[i]]

\* The composes of session.dirty when the links are flushed: the new compose and,
\* through the children / respun_by backrefs, every compose it was linked to.
LinkDirty(t) ==
    LET linked == {req[t].parent_compose_ids[i] :
                      i \in 1..Len(req[t].parent_compose_ids)}
                  \cup (IF req[t].respin_of # NoId THEN {req[t].respin_of} ELSE {})
    IN IF linked = {} THEN {} ELSE linked \cup {compose[t]}

\* models.py 651-657: parents and respin_of are attached and committed.
CreateLinks(t) ==
    /\ pc[t] = "c_links"
    /\ parent_links' = parent_links \cup
           {<<req[t].parent_compose_ids[i], compose[t]>> :
               i \in 1..Len(req[t].parent_compose_ids)}
    /\ composes' = SetRespinOf(compose[t], req[t].respin_of)
    /\ \E order \in Orders(LinkDirty(t)) :
          CommitEvents([i \in 1..Len(order) |-> Msg("compose-changed", order[i])])
    /\ pc' = [pc EXCEPT ![t] = "c_audit"]
    /\ UNCHANGED <<users, compose_changes, tagVars, req, ci, compose, attempts,
                   res, pend, histVars, logVars, faults>>
    /\ UNCHANGED msgVars

\* Mutant: the created row replaces the compose's audit trail.
CreateAudit_Rewrite(t) ==
    /\ pc[t] = "c_audit"
    /\ compose_changes' = <<CreatedRow(compose[t], req[t].builder, NULL)>>
    /\ wrote' = [wrote EXCEPT ![t] =
                    Append(@, CreatedRow(compose[t], req[t].builder, NULL))]
    /\ CommitEvents(<<>>)
    /\ Raise(t, "OK", compose[t])
    /\ UNCHANGED <<composes, parent_links, users, tagVars, req, ci, compose,
                   attempts, pend, histVars, compose_muts, tag_muts, faults>>
    /\ UNCHANGED msgVars

\* models.py 659-662 with ComposeChange.create (473-481): the created row is
\* written in a commit of its own; user.id fails when the builder has no row.
CreateAudit(t) ==
    /\ pc[t] = "c_audit"
    /\ IF find_user_by_name(req[t].builder)
       THEN /\ compose_changes' =
                  Append(compose_changes, CreatedRow(compose[t], req[t].builder, NULL))
            /\ wrote' = [wrote EXCEPT ![t] =
                            Append(@, CreatedRow(compose[t], req[t].builder, NULL))]
            /\ CommitEvents(<<>>)
            /\ Raise(t, "OK", compose[t])
       ELSE /\ Raise(t, "AttributeError", compose[t])
            /\ UNCHANGED <<compose_changes, eventVars, wrote>>
    /\ UNCHANGED <<composes, parent_links, users, tagVars, req, ci, compose,
                   attempts, pend, histVars, compose_muts, tag_muts, faults>>
    /\ UNCHANGED msgVars

\* ------------------------------------------------------------- unit of work
\* The roles of the configuration: conf.admins and conf.allowed_builders.
Roles == [admins |-> {"admin"}, allowed_builders |-> {"odcs"}]

\* flask.g.groups of the logged-in user, as the auth backend sets it.
g_groups(user) == IF user = "odcs" THEN {"g"} ELSE {}

\* The "groups" lists of the roles in the configuration.
RoleGroups == [admins |-> {}, allowed_builders |-> {}]

\* auth.has_role for a backend other than noauth.
has_role(role, user) ==
    user \in Roles[role] \/ g_groups(user) \cap RoleGroups[role] # {}

\* Tag.get_by_name: the id of the tag, 0 for None.
get_by_name(tag_name) ==
    IF \E i \in 1..Len(tags) : tags[i].name = tag_name
    THEN tags[CHOOSE i \in 1..Len(tags) : tags[i].name = tag_name].id
    ELSE 0

\* Tag.query.filter_by(id=id).first()
FindTag(id) == \E i \in 1..Len(tags) : tags[i].id = id

\* t in compose.tags
HasTag(id, tag_id) ==
    \E i \in 1..Len(tags_to_composes) :
        tags_to_composes[i] = [compose_id |-> id, tag_id |-> tag_id]

\* u in tag.taggers / tag.untaggers, and the TaggerGroups / UntaggerGroups query.
HasGrant(perm, kind, who, tag_id) ==
    \E i \in 1..Len(grants[perm][kind]) :
        grants[perm][kind][i] = [who |-> who, tag_id |-> tag_id]

\* The committed store as one value, with the outcome of a flush and the audit
\* rows the flush inserted.
Store ==
    [composes |-> composes, users |-> users, compose_changes |-> compose_changes,
     tags |-> tags, tags_to_composes |-> tags_to_composes, grants |-> grants,
     tag_changes |-> tag_changes, compose_muts |-> compose_muts,
     tag_muts |-> tag_muts, audit |-> <<>>, err |-> NULL]

\* Mutant: tables without their unique constraints and primary keys.
Has_Unconstrained(seq, row) == FALSE

Has(seq, row) == \E i \in 1..Len(seq) : seq[i] = row

\* Mutant: a DELETE without its WHERE clause.
Without_Where(seq, row) == <<>>

\* The table after DELETE of row.
Without(seq, row) == SelectSeq(seq, LAMBDA r : r # row)

\* One statement of a flush against the tables and their constraints: users
\* (unique username), tags (unique name), tags_to_composes (unique_tags), taggers
\* and untaggers (unique_taggers, unique_untaggers), tagger_groups and
\* untagger_groups (primary key), compose_changes, tag_changes, composes.
ApplyStmt(S, s, t) ==
    IF S.err # NULL THEN S
    ELSE CASE s.k = "insert_user" ->
                IF s.who \in S.users THEN [S EXCEPT !.err = "IntegrityError"]
                ELSE [S EXCEPT !.users = @ \cup {s.who}]
           [] s.k = "insert_tag" ->
                IF \E i \in 1..Len(S.tags) : S.tags[i].name = s.name
                THEN [S EXCEPT !.err = "IntegrityError"]
                ELSE [S EXCEPT !.tags = Append(@, [id |-> Len(S.tags) + 1,
                                                  name |-> s.name,
                                                  description |-> s.description,
                                                  documentation |-> s.documentation]),
                               !.tag_muts = Append(@, Mut(Len(S.tags) + 1, "created", t))]
           [] s.k = "update_tag" ->
                IF \E i \in 1..Len(S.tags) :
                      S.tags[i].id # s.tag_id /\ S.tags[i].name = s.name
                THEN [S EXCEPT !.err = "IntegrityError"]
                ELSE LET new == [i \in 1..Len(S.tags) |->
                                   IF S.tags[i].id = s.tag_id
                                   THEN [S.tags[i] EXCEPT
                                           !.name = IF s.name = NULL THEN @ ELSE s.name,
                                           !.description =
                                               IF s.description = NULL THEN @
                                               ELSE s.description]
                                   ELSE S.tags[i]]
                     IN IF new = S.tags THEN S
                        ELSE [S EXCEPT !.tags = new,
                                       !.tag_muts = Append(@, Mut(s.tag_id, "edited", t))]
           [] s.k = "insert_grant" ->
                IF Has(S.grants[s.perm][s.kind], s.row)
                THEN [S EXCEPT !.err = "IntegrityError"]
                ELSE [S EXCEPT !.grants[s.perm][s.kind] = Append(@, s.row),
                               !.tag_muts = Append(@, Mut(s.row.tag_id, s.action, t))]
           [] s.k = "delete_grant" ->
                IF Has(S.grants[s.perm][s.kind], s.row)
                THEN [S EXCEPT !.grants[s.perm][s.kind] = Without(@, s.row),
                               !.tag_muts = Append(@, Mut(s.row.tag_id, s.action, t))]
                ELSE IF s.kind = "users" THEN [S EXCEPT !.err = "StaleDataError"]
                ELSE S
           [] s.k = "insert_tag_rel" ->
                IF Has(S.tags_to_composes, s.row)
                THEN [S EXCEPT !.err = "IntegrityError"]
                ELSE [S EXCEPT !.tags_to_composes = Append(@, s.row),
                               !.compose_muts =
                                   Append(@, Mut(s.row.compose_id, "tagged", t))]
           [] s.k = "delete_tag_rel" ->
                IF Has(S.tags_to_composes, s.row)
                THEN [S EXCEPT !.tags_to_composes = Without(@, s.row),
                               !.compose_muts =
                                   Append(@, Mut(s.row.compose_id, "untagged", t))]
                ELSE [S EXCEPT !.err = "StaleDataError"]
           [] s.k = "insert_compose_change" ->
                [S EXCEPT !.compose_changes = Append(@, s.row),
                          !.audit = Append(@, s.row)]
           [] s.k = "insert_tag_change" ->
                [S EXCEPT !.tag_changes = Append(@, s.row),
                          !.audit = Append(@, s.row)]
           [] s.k = "update_url" ->
                LET new == [i \in 1..Len(S.composes) |->
                               IF S.composes[i].id = s.compose_id
                               THEN [S.composes[i] EXCEPT !.compose_url = s.compose_url]
                               ELSE S.composes[i]]
                IN IF new = S.composes THEN S
                   ELSE [S EXCEPT !.composes = new,
                                  !.compose_muts =
                                      Append(@, Mut(s.compose_id, "set_url", t))]

RECURSIVE Flush(_, _, _)
Flush(S, stmts, t) ==
    IF stmts = <<>> THEN S ELSE Flush(ApplyStmt(S, Head(stmts), t), Tail(stmts), t)

\* The exception the flush of stmts raises, NULL when it goes through.
FlushError(t, stmts) == Flush(Store, stmts, t).err

\* The flush and the COMMIT of a session holding stmts: the rows are durable.
CommitRows(t, stmts) ==
    LET S == Flush(Store, stmts, t)
    IN /\ composes' = S.composes
       /\ users' = S.users
       /\ compose_changes' = S.compose_changes
       /\ tags' = S.tags
       /\ tags_to_composes' = S.tags_to_composes
       /\ grants' = S.grants
       /\ tag_changes' = S.tag_changes
       /\ compose_muts' = S.compose_muts
       /\ tag_muts' = S.tag_muts
       /\ wrote' = [wrote EXCEPT ![t] = @ \o S.audit]

\* session.commit() of a session holding stmts: the flush, COMMIT, and the
\* after_flush / after_commit hooks with the events msgs of the flush.
Commit(t, stmts, msgs) == CommitRows(t, stmts) /\ CommitEvents(msgs)

\* session.rollback(), or the removal of the session when the request ends.
Rollback ==
    UNCHANGED <<composes, users, compose_changes, tagVars, logVars, eventVars>>

\* ------------------------------------------------------------- compose PATCH
Http == "http://a"

\* Mutants: tag and untag without the look at the compose's tags, and without the
\* look for the Tag.
Compose_tag_NoLook(id, logged_user, tag_name, user_data) ==
    LET tid == get_by_name(tag_name)
    IN IF tid = 0 THEN <<>>
       ELSE << [k |-> "insert_compose_change",
                row |-> ComposeChangeRow(id, "tagged", logged_user,
                            TagMessage(logged_user, "added", tag_name), user_data)] >>

Compose_untag_NoTag(id, logged_user, tag_name, user_data) ==
    << [k |-> "insert_compose_change",
        row |-> ComposeChangeRow(id, "untagged", logged_user,
                    TagMessage(logged_user, "removed", tag_name), user_data)] >>

\* Compose.tag: the pending changes it leaves in the session.
Compose_tag(id, logged_user, tag_name, user_data) ==
    LET tid == get_by_name(tag_name)
    IN IF tid = 0 \/ HasTag(id, tid) THEN <<>>
       ELSE << [k |-> "insert_compose_change",
                row |-> ComposeChangeRow(id, "tagged", logged_user,
                            TagMessage(logged_user, "added", tag_name), user_data)],
               [k |-> "insert_tag_rel",
                row |-> [compose_id |-> id, tag_id |-> tid]] >>

\* Compose.untag: the pending changes it leaves in the session.
Compose_untag(id, logged_user, tag_name, user_data) ==
    LET tid == get_by_name(tag_name)
    IN IF tid = 0 \/ ~HasTag(id, tid) THEN <<>>
       ELSE << [k |-> "insert_compose_change",
                row |-> ComposeChangeRow(id, "untagged", logged_user,
                            TagMessage(logged_user, "removed", tag_name), user_data)],
               [k |-> "delete_tag_rel",
                row |-> [compose_id |-> id, tag_id |-> tid]] >>

PatchCall(action, tag_name, user, ud, url) ==
    [action |-> action, tag |-> tag_name, user |-> user, user_data |-> ud,
     compose_url |-> url]

\* The JSON bodies of PATCH /composes/<id> with the logged-in user: odcs holds
\* the tagger grant of "periodic" and the allowed_builders role, admin is an admin.
PatchCalls ==
    {PatchCall("tag", "periodic", "odcs", ud, NULL) : ud \in UserData}
    \cup {PatchCall("tag", "new", "admin", NULL, NULL),
          PatchCall("untag", "periodic", "admin", "ud", NULL),
          PatchCall("untag", "periodic", "odcs", NULL, NULL),
          PatchCall("set_url", NULL, "odcs", "ud", Http),
          PatchCall("set_url", NULL, "admin", NULL, "ftp://a")}

\* views.py 526-578: the lookups, the permission checks and the model call.
BeginPatch(t) ==
    /\ Arrive(t)
    /\ \E a \in PatchCalls, id \in ComposeIds \cup {MissingId} :
        LET tid == get_by_name(a.tag)
            is_admin == has_role("admins", a.user)
            perm == IF a.action = "tag" THEN "tagger" ELSE "untagger"
            stmts == IF a.action = "tag"
                     THEN Compose_tag(id, a.user, a.tag, a.user_data)
                     ELSE IF a.action = "untag"
                     THEN Compose_untag(id, a.user, a.tag, a.user_data)
                     ELSE <<[k |-> "update_url", compose_id |-> id,
                             compose_url |-> a.compose_url]>>
        IN /\ req' = [req EXCEPT ![t] =
                        [op |-> "patch", via |-> "view", id |-> id] @@ a]
           /\ IF ~FindCompose(id)
              THEN Raise(t, "NotFound", id) /\ pend' = pend
              ELSE IF a.action \in {"tag", "untag"} /\ tid = 0
              THEN Raise(t, "ValueError", <<"Tag does not exist", a.tag>>)
                   /\ pend' = pend
              ELSE IF /\ a.action \in {"tag", "untag"}
                      /\ ~HasGrant(perm, "users", a.user, tid)
                      /\ ~is_admin
              THEN Raise(t, "Forbidden", a.user) /\ pend' = pend
              ELSE IF /\ a.action = "set_url"
                      /\ ~has_role("allowed_builders", a.user)
                      /\ ~is_admin
              THEN Raise(t, "Forbidden", a.user) /\ pend' = pend
              ELSE IF a.action = "set_url" /\ a.compose_url # Http
              THEN Raise(t, "ValueError", <<"not a valid http(s) URL">>)
                   /\ pend' = pend
              ELSE /\ pend' = [pend EXCEPT ![t] = stmts]
                   /\ pc' = [pc EXCEPT ![t] = "p_commit"]
                   /\ res' = res
    /\ UNCHANGED <<storeVars, eventVars, ci, compose, attempts, alone, logVars,
                   faults>>
    /\ UNCHANGED msgVars

\* What Compose.tag and Compose.untag return: False without the Tag, else True.
TagReturns(tag_name) == get_by_name(tag_name) # 0

\* Direct calls of the model methods, as manage.py and the tests make them.
ComposeMethodCalls ==
    {PatchCall("tag", "periodic", "odcs", "ud", NULL),
     PatchCall("untag", "periodic", "odcs", NULL, NULL),
     PatchCall("tag", "new", "admin", NULL, NULL),
     PatchCall("untag", "new", "admin", "ud", NULL)}

\* compose.tag(logged_user, tag_name, user_data) or compose.untag(...) on a
\* compose of the store, followed by the caller's db.session.commit().
BeginComposeMethod(t) ==
    /\ Arrive(t)
    /\ \E a \in ComposeMethodCalls, id \in ComposeIds :
        /\ req' = [req EXCEPT ![t] =
                     [op |-> "patch", via |-> "method", id |-> id,
                      returned |-> TagReturns(a.tag)] @@ a]
        /\ pend' = [pend EXCEPT ![t] =
                      IF a.action = "tag"
                      THEN Compose_tag(id, a.user, a.tag, a.user_data)
                      ELSE Compose_untag(id, a.user, a.tag, a.user_data)]
    /\ pc' = [pc EXCEPT ![t] = "p_commit"]
    /\ UNCHANGED <<storeVars, eventVars, ci, compose, attempts, res, alone, logVars,
                   faults>>
    /\ UNCHANGED msgVars

\* Mutant: the event without the annotation of the change record.
PatchMsg_NoData(r) ==
    IF r.action = "tag"
    THEN [event |-> "compose-tagged", compose |-> r.id, tag |-> r.tag,
          user_data |-> NULL]
    ELSE IF r.action = "untag"
    THEN [event |-> "compose-untagged", compose |-> r.id, tag |-> r.tag,
          user_data |-> NULL]
    ELSE Msg("compose-changed", r.id)

\* events.py 51-68 for the compose a PATCH left dirty.
PatchMsg(r) ==
    IF r.action = "tag"
    THEN [event |-> "compose-tagged", compose |-> r.id, tag |-> r.tag,
          user_data |-> r.user_data]
    ELSE IF r.action = "untag"
    THEN [event |-> "compose-untagged", compose |-> r.id, tag |-> r.tag,
          user_data |-> r.user_data]
    ELSE Msg("compose-changed", r.id)

\* views.py 580: db.session.commit() of what Compose.tag, Compose.untag or the
\* compose_url assignment left pending.
PatchCommit(t) ==
    /\ pc[t] = "p_commit"
    /\ LET stmts == pend[t]
           err == FlushError(t, stmts)
       IN IF err = NULL
          THEN /\ Commit(t, stmts, IF stmts = <<>> THEN <<>> ELSE <<PatchMsg(req[t])>>)
               /\ Raise(t, "OK", req[t].id)
          ELSE /\ Rollback
               /\ Raise(t, err, req[t].id)
    /\ pend' = [pend EXCEPT ![t] = <<>>]
    /\ UNCHANGED <<parent_links, req, ci, compose, attempts, histVars, faults>>
    /\ UNCHANGED msgVars

\* ------------------------------------------------------------- tag PATCH
GrantActions == {"add_tagger", "remove_tagger", "add_untagger", "remove_untagger"}
IsAdd(action) == action \in {"add_tagger", "add_untagger"}
PermOf(action) ==
    IF action \in {"add_tagger", "remove_tagger"} THEN "tagger" ELSE "untagger"

\* The message of Tag.add_tagger, remove_tagger, add_untagger, remove_untagger.
ActionMessage(action, kind, who) ==
    GrantMessage(PermOf(action), IF IsAdd(action) THEN "granted" ELSE "removed",
                 kind, who)

\* The row TagChange.create adds for the request of thread t.
TagChangeStmt(t, kind, who) ==
    [k |-> "insert_tag_change",
     row |-> TagChangeRow(req[t].tag_id, req[t].action, req[t].logged,
                          ActionMessage(req[t].action, kind, who),
                          req[t].user_data)]

GrantStmt(t, k, kind, who) ==
    [k |-> k, perm |-> PermOf(req[t].action), kind |-> kind,
     action |-> req[t].action, row |-> [who |-> who, tag_id |-> req[t].tag_id]]

TagPatchCall(tag_id, action, username, ud, name, description) ==
    [tag_id |-> tag_id, action |-> action, username |-> username, user_data |-> ud,
     name |-> name, description |-> description]

\* The JSON bodies of PATCH /tags/<id>: grants and revokes with and without
\* user_data, for a user with a row (odcs) and one without (bob), and edits.
TagPatchCalls ==
    {TagPatchCall(1, "add_tagger", "bob", ud, NULL, NULL) : ud \in UserData}
    \cup {TagPatchCall(1, "remove_tagger", "odcs", ud, NULL, NULL) : ud \in UserData}
    \cup {TagPatchCall(1, "add_tagger", "odcs", NULL, NULL, NULL),
          TagPatchCall(1, "add_untagger", "odcs", NULL, "new", NULL),
          TagPatchCall(1, "remove_untagger", "odcs", "ud", "new", NULL),
          TagPatchCall(1, "remove_tagger", "bob", NULL, NULL, NULL),
          TagPatchCall(1, "add_untagger", "bob", NULL, NULL, NULL),
          TagPatchCall(1, NULL, NULL, NULL, "new", NULL),
          TagPatchCall(1, NULL, NULL, "ud", NULL, "d2"),
          TagPatchCall(2, "add_tagger", "odcs", NULL, NULL, NULL)}

\* views.py 881-914: the edits are assigned, then the model method is called as
\* getattr(t, action)(g.user.username, username, user_data), which binds
\* user_data to the parameter group.
BeginTagPatch(t) ==
    /\ Arrive(t)
    /\ \E a \in TagPatchCalls :
        LET edits == IF a.name = NULL /\ a.description = NULL THEN <<>>
                     ELSE <<[k |-> "update_tag", tag_id |-> a.tag_id, name |-> a.name,
                             description |-> a.description]>>
        IN /\ req' = [req EXCEPT ![t] =
                        [op |-> "tag_patch", via |-> "view", tag_id |-> a.tag_id,
                         logged |-> "admin", action |-> a.action,
                         username |-> a.username, group |-> a.user_data,
                         user_data |-> NULL, data |-> a]]
           /\ IF ~FindTag(a.tag_id)
              THEN Raise(t, "NotFound", a.tag_id) /\ pend' = pend
              ELSE /\ pend' = [pend EXCEPT ![t] = edits]
                   /\ pc' = [pc EXCEPT ![t] =
                               IF a.action = NULL THEN "g_commit" ELSE "g_user"]
                   /\ res' = res
    /\ UNCHANGED <<storeVars, eventVars, ci, compose, attempts, alone, logVars,
                   faults>>
    /\ UNCHANGED msgVars

MethodCall(action, group, ud) == [action |-> action, group |-> group, user_data |-> ud]

\* Calls of the model methods with keyword arguments, for a group.
MethodCalls ==
    {MethodCall("add_tagger", "g", ud) : ud \in UserData}
    \cup {MethodCall("remove_tagger", "g", "ud"),
          MethodCall("add_untagger", "g", NULL)}

\* t.add_tagger(logged_user, group=..., user_data=...) and its like on the tag
\* "periodic", followed by the caller's db.session.commit().
BeginTagMethod(t) ==
    /\ Arrive(t)
    /\ \E a \in MethodCalls :
        req' = [req EXCEPT ![t] =
                  [op |-> "tag_patch", via |-> "method", tag_id |-> 1,
                   logged |-> "admin", action |-> a.action, username |-> NULL,
                   group |-> a.group, user_data |-> a.user_data, data |-> a]]
    /\ pc' = [pc EXCEPT ![t] = "g_group"]
    /\ UNCHANGED <<storeVars, eventVars, ci, compose, attempts, res, pend, alone,
                   logVars, faults>>
    /\ UNCHANGED msgVars

\* The username branch of add_tagger / add_untagger (models.py 268-279, 358-370)
\* and of remove_tagger / remove_untagger (309-327, 401-419).
GrantUser(t) ==
    /\ pc[t] = "g_user"
    /\ LET r == req[t]
           perm == PermOf(r.action)
           next == IF r.group = NULL THEN "g_commit" ELSE "g_group"
           created == IF find_user_by_name(r.username) THEN <<>>
                      ELSE <<[k |-> "insert_user", who |-> r.username]>>
           granting == pend[t] \o created \o <<TagChangeStmt(t, "user", r.username)>>
           revoking == pend[t] \o <<GrantStmt(t, "delete_grant", "users", r.username),
                                    TagChangeStmt(t, "user", r.username)>>
       IN IF IsAdd(r.action)
          THEN IF FlushError(t, granting) = NULL
               THEN /\ Commit(t, granting, <<>>)
                    /\ pend' = [pend EXCEPT ![t] =
                                  IF HasGrant(perm, "users", r.username, r.tag_id)
                                  THEN <<>>
                                  ELSE <<GrantStmt(t, "insert_grant", "users",
                                                   r.username)>>]
                    /\ pc' = [pc EXCEPT ![t] = next]
                    /\ res' = res
               ELSE /\ Rollback
                    /\ Raise(t, FlushError(t, granting), r.tag_id)
                    /\ pend' = [pend EXCEPT ![t] = <<>>]
          ELSE IF FlushError(t, pend[t]) # NULL
          THEN /\ Rollback
               /\ Raise(t, FlushError(t, pend[t]), r.tag_id)
               /\ pend' = [pend EXCEPT ![t] = <<>>]
          ELSE IF ~find_user_by_name(r.username)
          THEN /\ Rollback
               /\ Raise(t, "ValueError", <<"User does not exist">>)
               /\ pend' = [pend EXCEPT ![t] = <<>>]
          ELSE IF ~HasGrant(perm, "users", r.username, r.tag_id)
          THEN /\ Rollback
               /\ pc' = [pc EXCEPT ![t] = "g_commit"]
               /\ UNCHANGED <<res, pend>>
          ELSE IF FlushError(t, revoking) = NULL
          THEN /\ Commit(t, revoking, <<>>)
               /\ pend' = [pend EXCEPT ![t] = <<>>]
               /\ pc' = [pc EXCEPT ![t] = next]
               /\ res' = res
          ELSE /\ Rollback
               /\ Raise(t, FlushError(t, revoking), r.tag_id)
               /\ pend' = [pend EXCEPT ![t] = <<>>]
    /\ UNCHANGED <<parent_links, req, ci, compose, attempts, histVars, faults>>
    /\ UNCHANGED msgVars

\* The group branch of add_tagger / add_untagger (models.py 281-295, 372-387) and
\* of remove_tagger / remove_untagger (329-344, 421-436).
GrantGroup(t) ==
    /\ pc[t] = "g_group"
    /\ LET r == req[t]
           perm == PermOf(r.action)
           exists == HasGrant(perm, "groups", r.group, r.tag_id)
           granting == pend[t] \o <<TagChangeStmt(t, "group", r.group)>>
           revoking == pend[t] \o <<GrantStmt(t, "delete_grant", "groups", r.group),
                                    TagChangeStmt(t, "group", r.group)>>
           stmts == IF IsAdd(r.action) THEN granting ELSE revoking
       IN IF FlushError(t, pend[t]) # NULL
          THEN /\ Rollback
               /\ Raise(t, FlushError(t, pend[t]), r.tag_id)
               /\ pend' = [pend EXCEPT ![t] = <<>>]
          ELSE IF exists = IsAdd(r.action)
          THEN /\ Rollback
               /\ pc' = [pc EXCEPT ![t] = "g_commit"]
               /\ UNCHANGED <<res, pend>>
          ELSE IF FlushError(t, stmts) = NULL
          THEN /\ Commit(t, stmts, <<>>)
               /\ pend' = [pend EXCEPT ![t] =
                             IF IsAdd(r.action)
                             THEN <<GrantStmt(t, "insert_grant", "groups", r.group)>>
                             ELSE <<>>]
               /\ pc' = [pc EXCEPT ![t] = "g_commit"]
               /\ res' = res
          ELSE /\ Rollback
               /\ Raise(t, FlushError(t, stmts), r.tag_id)
               /\ pend' = [pend EXCEPT ![t] = <<>>]
    /\ UNCHANGED <<parent_links, req, ci, compose, attempts, histVars, faults>>
    /\ UNCHANGED msgVars

\* views.py 918-924: the final db.session.commit(); the view turns an
\* IntegrityError into a ValueError.
GrantCommit(t) ==
    /\ pc[t] = "g_commit"
    /\ LET err == FlushError(t, pend[t])
       IN IF err = NULL
          THEN /\ Commit(t, pend[t], <<>>)
               /\ Raise(t, "OK", req[t].tag_id)
          ELSE /\ Rollback
               /\ Raise(t, IF err = "IntegrityError" /\ req[t].via = "view"
                           THEN "ValueError" ELSE err, req[t].tag_id)
    /\ pend' = [pend EXCEPT ![t] = <<>>]
    /\ UNCHANGED <<parent_links, req, ci, compose, attempts, histVars, faults>>
    /\ UNCHANGED msgVars

\* ------------------------------------------------------------- tags POST
TagNames == {"periodic", "new"}

\* views.py 736-766 with Tag.create (models.py 237-239): the tag is inserted and
\* committed; a duplicate name is answered with a ValueError.
TagsPost(t) ==
    /\ Arrive(t)
    /\ \E name \in TagNames, ud \in UserData :
        LET stmts == <<[k |-> "insert_tag", name |-> name, description |-> "d",
                        documentation |-> "doc"]>>
        IN /\ req' = [req EXCEPT ![t] =
                        [op |-> "tags_post", logged |-> "admin", name |-> name,
                         user_data |-> ud, tag_id |-> Len(tags) + 1]]
           /\ IF FlushError(t, stmts) = NULL
              THEN /\ Commit(t, stmts, <<>>)
                   /\ pc' = [pc EXCEPT ![t] = "tp_audit"]
                   /\ res' = res
              ELSE /\ Rollback
                   /\ Raise(t, "ValueError", <<"Tag already exists", name>>)
    /\ UNCHANGED <<parent_links, ci, compose, attempts, pend, alone, faults>>
    /\ UNCHANGED msgVars

\* models.py 241-243 with TagChange.create: the created row, in its own commit.
TagCreateAudit(t) ==
    /\ pc[t] = "tp_audit"
    /\ Commit(t, <<[k |-> "insert_tag_change",
                    row |-> TagChangeRow(req[t].tag_id, "created", req[t].logged,
                                         NoId, req[t].user_data)]>>, <<>>)
    /\ Raise(t, "OK", req[t].tag_id)
    /\ UNCHANGED <<parent_links, req, ci, compose, attempts, pend, histVars, faults>>
    /\ UNCHANGED msgVars

\* ------------------------------------------------------------- specification
Begin(t) ==
    \/ BeginCreate(t)
    \/ BeginPatch(t)
    \/ BeginComposeMethod(t)
    \/ BeginTagPatch(t)
    \/ BeginTagMethod(t)
    \/ TagsPost(t)

\* The steps of a request that has arrived: the thread runs on.
Continue(t) ==
    \/ CreateResolve(t)
    \/ CreateInsert(t)
    \/ CreateExcept(t)
    \/ CreateLinks(t)
    \/ CreateAudit(t)
    \/ PatchCommit(t)
    \/ GrantUser(t)
    \/ GrantGroup(t)
    \/ GrantCommit(t)
    \/ TagCreateAudit(t)

Next == \E t \in Threads : Begin(t) \/ Continue(t)

Spec == Init /\ [][Next]_vars

\* Every request thread that has work to do is eventually scheduled.
FairSpec == Spec /\ \A t \in Threads : WF_vars(Continue(t))

\* ------------------------------------------------------------- session hooks
\* The same requests with session.commit() taken apart: the flush, whose
\* after_flush hook stages the events, and the COMMIT, whose after_commit hook
\* drains the buffer. Between the two the thread's transaction is open.
\* Thread t has flushed and is at p, or is still inside the after_flush hook of
\* that flush.
At(t, p) == pc[t] = p \/ (pc[t] \in {"h_lock", "h_append", "h_keys"} /\ hook[t].next = p)

Open(t) == At(t, "c_insert_f") \/ At(t, "c_links_f") \/ At(t, "p_commit_f")

\* events.py 39-85, listened to on after_flush (models.py 42-43): the events of
\* the flushed composes are appended to the process-wide buffer.
cache_composes_if_state_changed(ms) ==
    /\ cached_composes' = Stage(cached_composes, ms)
    /\ published' = published
    /\ emitted' = emitted \o ms
    /\ log' = log

\* events.py 92-106, listened to on after_commit (models.py 44): everything in the
\* buffer goes to messaging.publish as one batch and the buffer is cleared.
start_to_publish_messages == CommitEvents(<<>>)

\* The INSERT of row has to wait for the open transaction of another thread that
\* has inserted a row with the same id or release_date_respin.
InsertWaits(t, row) ==
    \E u \in Threads \ {t} :
        /\ At(u, "c_insert_f")
        /\ \/ NewCompose(u).id = row.id
           \/ /\ row.release_date_respin # NoId
              /\ NewCompose(u).release_date_respin = row.release_date_respin

\* The statements of thread t have to wait for the open transaction of another
\* thread that touched the same rows: a statement that would fail on them, or an
\* UPDATE of the same compose.
PatchWaits(t) ==
    \E u \in Threads \ {t} :
        /\ At(u, "p_commit_f")
        /\ \/ Flush(Flush(Store, pend[u], u), pend[t], t).err # NULL
           \/ \E i \in 1..Len(pend[t]), j \in 1..Len(pend[u]) :
                 /\ pend[t][i].k = "update_url" /\ pend[u][j].k = "update_url"
                 /\ pend[t][i].compose_id = pend[u][j].compose_id

\* Mutant: the created event is staged before the INSERT is tried.
InsertFlush_StageFirst(t) ==
    /\ pc[t] = "c_insert"
    /\ attempts' = [attempts EXCEPT ![t] = @ + 1]
    /\ LET row == NewCompose(t)
       IN /\ ~InsertWaits(t, row)
          /\ cache_composes_if_state_changed(<<Msg("compose-created", row.id)>>)
          /\ \/ /\ ~UniqueViolation(row)
                /\ pc' = [pc EXCEPT ![t] = "c_insert_f"]
                /\ UNCHANGED faults
             \/ /\ UniqueViolation(row)
                /\ pc' = [pc EXCEPT ![t] = "c_except"]
                /\ UNCHANGED faults
             \/ /\ ~UniqueViolation(row)
                /\ faults < MaxFaults
                /\ faults' = faults + 1
                /\ pc' = [pc EXCEPT ![t] = "c_except"]
    /\ UNCHANGED <<storeVars, req, ci, compose, res, pend, histVars, logVars>>
    /\ UNCHANGED msgVars

\* models.py 628-631, the flush of session.commit(): the INSERT, and after_flush
\* when it went through; a failed INSERT leaves the flush before the hook.
InsertFlush(t) ==
    /\ pc[t] = "c_insert"
    /\ attempts' = [attempts EXCEPT ![t] = @ + 1]
    /\ LET row == NewCompose(t)
       IN /\ ~InsertWaits(t, row)
          /\ \/ /\ ~UniqueViolation(row)
                /\ cache_composes_if_state_changed(<<Msg("compose-created", row.id)>>)
                /\ pc' = [pc EXCEPT ![t] = "c_insert_f"]
                /\ UNCHANGED faults
             \/ /\ UniqueViolation(row)
                /\ pc' = [pc EXCEPT ![t] = "c_except"]
                /\ UNCHANGED <<eventVars, faults>>
             \/ /\ ~UniqueViolation(row)
                /\ faults < MaxFaults
                /\ faults' = faults + 1
                /\ pc' = [pc EXCEPT ![t] = "c_except"]
                /\ UNCHANGED eventVars
    /\ UNCHANGED <<storeVars, req, ci, compose, res, pend, histVars, logVars>>
    /\ UNCHANGED msgVars

\* models.py 631-632: the COMMIT of the inserted compose and after_commit.
InsertCommit(t) ==
    /\ pc[t] = "c_insert_f"
    /\ LET row == NewCompose(t)
       IN /\ composes' = Append(composes, row)
          /\ compose_muts' = Append(compose_muts, Mut(row.id, "created", t))
          /\ compose' = [compose EXCEPT ![t] = row.id]
    /\ start_to_publish_messages
    /\ pc' = [pc EXCEPT ![t] = "c_links"]
    /\ alone' = [u \in Threads |->
                   IF u # t /\ (InCreate(u) \/ Open(u)) THEN FALSE ELSE alone[u]]
    /\ UNCHANGED <<parent_links, users, compose_changes, tagVars, req, ci, attempts,
                   res, pend, prior, wrote, tag_muts, faults>>
    /\ UNCHANGED msgVars

\* models.py 651-657, the flush: the links are written and after_flush stages an
\* event for every dirty compose.
LinksFlush(t) ==
    /\ pc[t] = "c_links"
    /\ \E order \in Orders(LinkDirty(t)) :
          cache_composes_if_state_changed(
              [i \in 1..Len(order) |-> Msg("compose-changed", order[i])])
    /\ pc' = [pc EXCEPT ![t] = "c_links_f"]
    /\ UNCHANGED <<storeVars, req, ci, compose, attempts, res, pend, histVars,
                   logVars, faults>>
    /\ UNCHANGED msgVars

\* models.py 657: the COMMIT of the links and after_commit.
LinksCommit(t) ==
    /\ pc[t] = "c_links_f"
    /\ parent_links' = parent_links \cup
           {<<req[t].parent_compose_ids[i], compose[t]>> :
               i \in 1..Len(req[t].parent_compose_ids)}
    /\ composes' = SetRespinOf(compose[t], req[t].respin_of)
    /\ start_to_publish_messages
    /\ pc' = [pc EXCEPT ![t] = "c_audit"]
    /\ UNCHANGED <<users, compose_changes, tagVars, req, ci, compose, attempts,
                   res, pend, histVars, logVars, faults>>
    /\ UNCHANGED msgVars

\* views.py 580, the flush of db.session.commit(): the statements Compose.tag,
\* Compose.untag or the compose_url assignment left pending, and after_flush.
PatchFlush(t) ==
    /\ pc[t] = "p_commit"
    /\ LET err == FlushError(t, pend[t])
       IN IF err # NULL
          THEN /\ Rollback
               /\ Raise(t, err, req[t].id)
               /\ pend' = [pend EXCEPT ![t] = <<>>]
          ELSE /\ ~PatchWaits(t)
               /\ cache_composes_if_state_changed(
                      IF pend[t] = <<>> THEN <<>> ELSE <<PatchMsg(req[t])>>)
               /\ pc' = [pc EXCEPT ![t] = "p_commit_f"]
               /\ UNCHANGED <<composes, users, compose_changes, tagVars, logVars,
                              res, pend>>
    /\ UNCHANGED <<parent_links, req, ci, compose, attempts, histVars, faults>>
    /\ UNCHANGED msgVars

\* Mutant: the exception of messaging.publish reaches the committing caller.
PatchAfterCommit_Propagate(t) ==
    /\ pc[t] = "p_commit_f"
    /\ Commit(t, pend[t], <<>>)
    /\ Raise(t, IF Drain(cached_composes) # <<>> /\ publish_raises # NULL
                THEN publish_raises ELSE "OK", req[t].id)
    /\ pend' = [pend EXCEPT ![t] = <<>>]
    /\ UNCHANGED <<parent_links, req, ci, compose, attempts, histVars, faults>>
    /\ UNCHANGED msgVars

\* Mutant: messaging.publish sends the batch itself, on the committing thread.
PatchAfterCommit_Sync(t) ==
    /\ pc[t] = "p_commit_f"
    /\ Commit(t, pend[t], <<>>)
    /\ Raise(t, "OK", req[t].id)
    /\ pend' = [pend EXCEPT ![t] = <<>>]
    /\ bus' = bus \o [i \in 1..Len(Drain(cached_composes)) |->
                        [msg |-> Drain(cached_composes)[i],
                         batch |-> Len(published) + 1, call |-> 1, by |-> t]]
    /\ UNCHANGED <<parent_links, req, ci, compose, attempts, histVars, faults>>
    /\ UNCHANGED <<backend, taken, slept, retry, times, scan, procVars>>

\* views.py 580: the COMMIT of the flushed statements and after_commit.
PatchAfterCommit(t) ==
    /\ pc[t] = "p_commit_f"
    /\ Commit(t, pend[t], <<>>)
    /\ Raise(t, "OK", req[t].id)
    /\ pend' = [pend EXCEPT ![t] = <<>>]
    /\ UNCHANGED <<parent_links, req, ci, compose, attempts, histVars, faults>>
    /\ UNCHANGED msgVars

HookNext ==
    \E t \in Threads :
        \/ BeginCreate(t)
        \/ BeginPatch(t)
        \/ BeginComposeMethod(t)
        \/ CreateResolve(t)
        \/ InsertFlush(t)
        \/ InsertCommit(t)
        \/ CreateExcept(t)
        \/ LinksFlush(t)
        \/ LinksCommit(t)
        \/ CreateAudit(t)
        \/ PatchFlush(t)
        \/ PatchAfterCommit(t)

HookSpec == Init /\ [][HookNext]_vars

\* ------------------------------------------------------------- _cache_lock
\* The after_flush hook taken apart into its accesses to _cached_composes.
\* A Compose of session.new | session.dirty with what attributes.get_history
\* tells about it: whether its id is unchanged, the tags added and deleted, and
\* the user_data of the ComposeChange rows added.
Touched(id, new, added, deleted, uds) ==
    [compose |-> id, id_unchanged |-> ~new, tags_added |-> added,
     tags_deleted |-> deleted, changes_added |-> uds]

\* Mutant: the tags are looked at before the id.
classify_TagsFirst(h) ==
    IF h.tags_added # <<>>
    THEN [event |-> "compose-tagged", compose |-> h.compose,
          tag |-> h.tags_added[1], user_data |-> h.changes_added[1]]
    ELSE IF h.tags_deleted # <<>>
    THEN [event |-> "compose-untagged", compose |-> h.compose,
          tag |-> h.tags_deleted[1], user_data |-> h.changes_added[1]]
    ELSE IF ~h.id_unchanged THEN Msg("compose-created", h.compose)
    ELSE Msg("compose-changed", h.compose)

\* events.py 50-68: the event of one touched compose.
classify(h) ==
    IF ~h.id_unchanged THEN Msg("compose-created", h.compose)
    ELSE IF h.tags_added # <<>>
    THEN [event |-> "compose-tagged", compose |-> h.compose,
          tag |-> h.tags_added[1], user_data |-> h.changes_added[1]]
    ELSE IF h.tags_deleted # <<>>
    THEN [event |-> "compose-untagged", compose |-> h.compose,
          tag |-> h.tags_deleted[1], user_data |-> h.changes_added[1]]
    ELSE Msg("compose-changed", h.compose)

\* What the flush of a PATCH request touches.
PatchTouched(r) ==
    IF r.action = "tag"
    THEN Touched(r.id, FALSE, <<r.tag>>, <<>>, <<r.user_data>>)
    ELSE IF r.action = "untag"
    THEN Touched(r.id, FALSE, <<>>, <<r.tag>>, <<r.user_data>>)
    ELSE Touched(r.id, FALSE, <<>>, <<>>, <<>>)

\* models.py 42-43: the flush calls cache_composes_if_state_changed with the
\* composes it touched; the thread goes on at next when the hook returns.
EnterHook(t, touched, next) ==
    /\ hook' = [hook EXCEPT ![t] = [todo |-> touched, flush |-> touched, next |-> next]]
    /\ pc' = [pc EXCEPT ![t] = "h_lock"]

\* models.py 628-631: the INSERT of the flush, then the hook.
InsertFlushHook(t) ==
    /\ pc[t] = "c_insert"
    /\ attempts' = [attempts EXCEPT ![t] = @ + 1]
    /\ LET row == NewCompose(t)
       IN /\ ~InsertWaits(t, row)
          /\ \/ /\ ~UniqueViolation(row)
                /\ EnterHook(t, <<Touched(row.id, TRUE, <<>>, <<>>, <<>>)>>,
                             "c_insert_f")
                /\ UNCHANGED faults
             \/ /\ UniqueViolation(row)
                /\ pc' = [pc EXCEPT ![t] = "c_except"]
                /\ UNCHANGED <<hook, faults>>
             \/ /\ ~UniqueViolation(row)
                /\ faults < MaxFaults
                /\ faults' = faults + 1
                /\ pc' = [pc EXCEPT ![t] = "c_except"]
                /\ UNCHANGED hook
    /\ UNCHANGED <<storeVars, eventVars, req, ci, compose, res, pend, histVars,
                   logVars>>
    /\ UNCHANGED <<backend, taken, bus, slept, retry, times, scan, lock, lost>>

\* models.py 651-657: the flush of the links, then the hook.
LinksFlushHook(t) ==
    /\ pc[t] = "c_links"
    /\ \E order \in Orders(LinkDirty(t)) :
          EnterHook(t, [i \in 1..Len(order) |->
                           Touched(order[i], FALSE, <<>>, <<>>, <<>>)], "c_links_f")
    /\ UNCHANGED <<storeVars, eventVars, req, ci, compose, attempts, res, pend,
                   histVars, logVars, faults>>
    /\ UNCHANGED <<backend, taken, bus, slept, retry, times, scan, lock, lost>>

\* views.py 580: the flush of the pending statements, then the hook.
PatchFlushHook(t) ==
    /\ pc[t] = "p_commit"
    /\ LET err == FlushError(t, pend[t])
       IN IF err # NULL
          THEN /\ Rollback
               /\ Raise(t, err, req[t].id)
               /\ pend' = [pend EXCEPT ![t] = <<>>]
               /\ hook' = hook
          ELSE /\ ~PatchWaits(t)
               /\ EnterHook(t, IF pend[t] = <<>> THEN <<>>
                                ELSE <<PatchTouched(req[t])>>, "p_commit_f")
               /\ UNCHANGED <<composes, users, compose_changes, tagVars, logVars,
                              eventVars, res, pend>>
    /\ UNCHANGED <<parent_links, req, ci, compose, attempts, histVars, faults>>
    /\ UNCHANGED <<backend, taken, bus, slept, retry, times, scan, lock, lost>>

\* events.py 48: with _cache_lock.
HookAcquire(t) ==
    /\ pc[t] = "h_lock"
    /\ lock = NULL
    /\ lock' = t
    /\ pc' = [pc EXCEPT ![t] = "h_append"]
    /\ UNCHANGED <<storeVars, eventVars, req, ci, compose, attempts, res, pend,
                   histVars, logVars, faults>>
    /\ UNCHANGED <<backend, taken, bus, slept, retry, times, scan, hook, lost>>

\* events.py 49-85: one turn of the loop appends the event of one compose.
HookAppend(t) ==
    /\ pc[t] = "h_append"
    /\ hook[t].todo # <<>>
    /\ cached_composes' = StageOne(cached_composes, classify(Head(hook[t].todo)))
    /\ emitted' = Append(emitted, classify(Head(hook[t].todo)))
    /\ hook' = [hook EXCEPT ![t].todo = Tail(@)]
    /\ UNCHANGED <<storeVars, published, log, threadVars, histVars, logVars, faults>>
    /\ UNCHANGED <<backend, taken, bus, slept, retry, times, scan, lock, lost>>

\* The end of the with block releases the lock.
HookRelease(t) ==
    /\ pc[t] = "h_append"
    /\ hook[t].todo = <<>>
    /\ lock' = NULL
    /\ pc' = [pc EXCEPT ![t] = "h_keys"]
    /\ UNCHANGED <<storeVars, eventVars, req, ci, compose, attempts, res, pend,
                   histVars, logVars, faults>>
    /\ UNCHANGED <<backend, taken, bus, slept, retry, times, scan, hook, lost>>

\* events.py 87-89: log.debug(..., _cached_composes.keys()) reads the buffer after
\* the with block; the hook returns.
HookLogKeys(t) ==
    /\ pc[t] = "h_keys"
    /\ pc' = [pc EXCEPT ![t] = hook[t].next]
    /\ hook' = [hook EXCEPT ![t].todo = <<>>, ![t].next = "idle"]
    /\ UNCHANGED <<storeVars, eventVars, req, ci, compose, attempts, res, pend,
                   histVars, logVars, faults>>
    /\ UNCHANGED <<backend, taken, bus, slept, retry, times, scan, lock, lost>>

\* The COMMIT steps run start_to_publish_messages, whose whole body is inside
\* with _cache_lock (events.py 96-106): they are taken when the lock is free.
LockNext ==
    \E t \in Threads :
        \/ BeginCreate(t)
        \/ BeginPatch(t)
        \/ CreateResolve(t)
        \/ InsertFlushHook(t)
        \/ CreateExcept(t)
        \/ LinksFlushHook(t)
        \/ PatchFlushHook(t)
        \/ HookAcquire(t)
        \/ HookAppend(t)
        \/ HookRelease(t)
        \/ HookLogKeys(t)
        \/ (lock = NULL /\ InsertCommit(t))
        \/ (lock = NULL /\ LinksCommit(t))
        \/ (/\ pc[t] = "c_audit"
            /\ find_user_by_name(req[t].builder) => lock = NULL
            /\ CreateAudit(t))
        \/ (lock = NULL /\ PatchAfterCommit(t))

LockSpec == Init /\ [][LockNext]_vars

\* ------------------------------------------------------------- classification
\* One flush of a session used directly: it touches one or two composes, each
\* newly added or not, with at most one tag added and one removed by Compose.tag
\* and Compose.untag (which also add the ComposeChange row), or only changed.
Histories ==
    {Touched(id, new, added, deleted, uds) :
        id \in {GoodId, MissingId}, new \in BOOLEAN,
        added \in {<<>>, <<"periodic">>}, deleted \in {<<>>, <<"new">>},
        uds \in {<<>>, <<NULL>>, <<"ud">>, <<"ud", NULL>>}}

Reachable(h) ==
    Len(h.changes_added) = Len(h.tags_added) + Len(h.tags_deleted)

Flushes ==
    {<<h>> : h \in {k \in Histories : Reachable(k)}}
    \cup {<<h1, h2>> : h1 \in {k \in Histories : Reachable(k) /\ k.compose = GoodId},
                       h2 \in {k \in Histories : Reachable(k) /\ k.compose = MissingId}}

FlushThread == CHOOSE t \in Threads : After(t) = {}

ClassifyInit ==
    /\ InitTables
    /\ backend = "rhmsg" /\ retry = NoRetry
    /\ pend = [t \in Threads |-> <<>>]
    /\ wrote = [t \in Threads |-> <<>>]
    /\ cached_composes = <<>>
    /\ published = <<>>
    /\ emitted = <<>>
    /\ pc = [t \in Threads |-> IF t = FlushThread THEN "h_lock" ELSE "idle"]
    /\ req = [t \in Threads |-> NoReq]
    /\ ci = [t \in Threads |-> NoCi]
    /\ compose = [t \in Threads |-> NoId]
    /\ attempts = [t \in Threads |-> 0]
    /\ res = [t \in Threads |-> NoRes]
    /\ alone = [t \in Threads |-> TRUE]
    /\ prior = [t \in Threads |-> {}]
    /\ faults = 0
    /\ log = <<>>
    /\ taken = 0
    /\ bus = <<>>
    /\ slept = <<>>
    /\ scan = NoScan
    /\ lock = NULL
    /\ lost = <<>>
    /\ \E f \in Flushes :
          hook = [t \in Threads |->
                    IF t = FlushThread
                    THEN [todo |-> f, flush |-> f, next |-> "flushed"]
                    ELSE NoHook]

ClassifyNext ==
    \E t \in Threads :
        \/ HookAcquire(t)
        \/ HookAppend(t)
        \/ HookRelease(t)
        \/ HookLogKeys(t)

ClassifySpec == ClassifyInit /\ [][ClassifyNext]_vars

\* ------------------------------------------------------------- messaging
\* The defaults of _retry_with_backoff.
DefaultMaxRetries == 3
DefaultInitialDelay == 1
DefaultBackoffMultiplier == 2

Backends == {NULL, "rhmsg", "bogus"}

\* What one call of func does: it returns a value, or raises an exception after
\* having sent the first messages of the batch.
Returns(v) == [ok |-> TRUE, value |-> v]
Fails(e, sent) == [ok |-> FALSE, exc |-> e, sent |-> sent]

\* messaging.py 77-92: the loop over range(max_retries + 1) and the final raise.
\* outs[i] is what the i-th call of func does.
RECURSIVE retry_loop(_, _, _, _, _, _, _)
retry_loop(outs, max_retries, backoff_multiplier, attempt, delay, sleeps, last_exception) ==
    IF attempt > max_retries
    THEN [status |-> "raised", value |-> last_exception, calls |-> attempt,
          sleeps |-> sleeps]
    ELSE IF outs[attempt + 1].ok
    THEN [status |-> "returned", value |-> outs[attempt + 1].value,
          calls |-> attempt + 1, sleeps |-> sleeps]
    ELSE IF attempt < max_retries
    THEN retry_loop(outs, max_retries, backoff_multiplier, attempt + 1,
                    delay * backoff_multiplier, Append(sleeps, delay),
                    outs[attempt + 1].exc)
    ELSE retry_loop(outs, max_retries, backoff_multiplier, attempt + 1, delay,
                    sleeps, outs[attempt + 1].exc)

\* Mutant: retries without backoff, every sleep as long as the first.
retry_with_backoff_Flat(outs, max_retries, initial_delay, backoff_multiplier) ==
    retry_loop(outs, max_retries, 1, 0, initial_delay, <<>>, NULL)

\* messaging._retry_with_backoff
retry_with_backoff(outs, max_retries, initial_delay, backoff_multiplier) ==
    retry_loop(outs, max_retries, backoff_multiplier, 0, initial_delay, <<>>, NULL)

\* The sends the executor has been given: publish submits one for every batch
\* when the backend is rhmsg, and none without a backend or when it raises.
Submitted == IF backend = "rhmsg" THEN published ELSE <<>>

\* messaging.py 103-116, the inner _send, called n times on a batch:
\* producer.send for each message until the call raises.
RECURSIVE Sends(_, _, _, _)
Sends(batch, idx, outs, n) ==
    IF n = 0 THEN <<>>
    ELSE Sends(batch, idx, outs, n - 1) \o
         [i \in 1..(IF outs[n].ok THEN Len(batch) ELSE outs[n].sent) |->
             [msg |-> batch[i], batch |-> idx, call |-> n, by |-> "worker"]]

\* The ways the broker can treat the sends of one batch: the first k calls fail
\* at message p, the later ones go through.
SendOutcomes(batch) ==
    {[i \in 1..(DefaultMaxRetries + 1) |->
         IF i <= k THEN Fails(<<"error", i>>, p - 1) ELSE Returns(NULL)] :
       k \in 0..(DefaultMaxRetries + 1), p \in 1..Len(batch)}

\* The worker has run the send of batch idx and no call of it, the last retry
\* included, put the whole batch on the bus.
Exhausted(idx) ==
    /\ idx <= taken
    /\ \A n \in 1..(DefaultMaxRetries + 1) :
          Cardinality({i \in 1..Len(bus) : bus[i].batch = idx /\ bus[i].call = n})
             < Len(Submitted[idx])

\* Mutant: a worker that ends with the first send that raises.
WorkerRun_Dies ==
    /\ taken < Len(Submitted)
    /\ \A idx \in 1..taken : ~Exhausted(idx)
    /\ \E outs \in SendOutcomes(Submitted[taken + 1]) :
          LET batch == Submitted[taken + 1]
              r == retry_with_backoff(outs, DefaultMaxRetries, DefaultInitialDelay,
                                      DefaultBackoffMultiplier)
          IN /\ bus' = bus \o Sends(batch, taken + 1, outs, r.calls)
             /\ slept' = slept \o [i \in 1..Len(r.sleeps) |->
                                     [delay |-> r.sleeps[i], batch |-> taken + 1,
                                      by |-> "worker"]]
             /\ log' = IF r.status = "raised"
                       THEN Append(log, "Failed to publish messages to message broker.")
                       ELSE log
    /\ taken' = taken + 1
    /\ UNCHANGED <<storeVars, cached_composes, published, emitted, threadVars,
                   histVars, logVars, faults, backend, retry, times, scan, procVars>>

\* messaging.py 46-53 on the executor's worker: the next submitted _send runs
\* backend(msgs), that is _umb_send_msg with its retries (95-119), and logs
\* the exception that comes out of it.
WorkerRun ==
    /\ taken < Len(Submitted)
    /\ \E outs \in SendOutcomes(Submitted[taken + 1]) :
          LET batch == Submitted[taken + 1]
              r == retry_with_backoff(outs, DefaultMaxRetries, DefaultInitialDelay,
                                      DefaultBackoffMultiplier)
          IN /\ bus' = bus \o Sends(batch, taken + 1, outs, r.calls)
             /\ slept' = slept \o [i \in 1..Len(r.sleeps) |->
                                     [delay |-> r.sleeps[i], batch |-> taken + 1,
                                      by |-> "worker"]]
             /\ log' = IF r.status = "raised"
                       THEN Append(log, "Failed to publish messages to message broker.")
                       ELSE log
    /\ taken' = taken + 1
    /\ UNCHANGED <<storeVars, cached_composes, published, emitted, threadVars,
                   histVars, logVars, faults, backend, retry, times, scan, procVars>>

\* The service with any messaging_backend setting.
MsgInit ==
    /\ InitService
    /\ backend \in Backends
    /\ retry = NoRetry

MsgNext ==
    \/ \E t \in Threads :
          \/ BeginPatch(t)
          \/ PatchFlush(t)
          \/ PatchAfterCommit(t)
    \/ WorkerRun

MsgSpec == MsgInit /\ [][MsgNext]_vars

\* The executor's worker thread runs whatever has been submitted to it.
MsgFairSpec == MsgSpec /\ WF_vars(WorkerRun)

\* ------------------------------------------------------------- process stop
\* views.py 580: the COMMIT of the flushed statements; after_commit has not run.
PatchDbCommit(t) ==
    /\ pc[t] = "p_commit_f"
    /\ CommitRows(t, pend[t])
    /\ pc' = [pc EXCEPT ![t] = "p_committed"]
    /\ UNCHANGED <<parent_links, eventVars, req, ci, compose, attempts, res, pend,
                   histVars, faults>>
    /\ UNCHANGED msgVars

\* The after_commit hook of that COMMIT, and the response.
PatchDrain(t) ==
    /\ pc[t] = "p_committed"
    /\ start_to_publish_messages
    /\ Raise(t, "OK", req[t].id)
    /\ pend' = [pend EXCEPT ![t] = <<>>]
    /\ UNCHANGED <<storeVars, req, ci, compose, attempts, histVars, logVars,
                   faults>>
    /\ UNCHANGED msgVars

\* What the process holds in memory only: the events in _cached_composes
\* (batch 0) and the batches submitted to _executor that the worker has not run.
InMemory ==
    [i \in 1..Len(Staged) |-> [msg |-> Staged[i], batch |-> 0]]
    \o Flat([b \in 1..(Len(Submitted) - taken) |->
               [i \in 1..Len(Submitted[taken + b]) |->
                   [msg |-> Submitted[taken + b][i], batch |-> taken + b]]])

\* Mutant: the executor's queue outlives the process.
Crash_KeepQueue ==
    /\ InMemory # <<>>
    /\ lost' = lost \o InMemory
    /\ cached_composes' = <<>>
    /\ emitted' = <<>>
    /\ pc' = [t \in Threads |-> IF pc[t] = "idle" THEN "idle" ELSE "done"]
    /\ res' = [t \in Threads |->
                 IF pc[t] \in {"idle", "done"} THEN res[t]
                 ELSE [status |-> "stopped", detail |-> NoId]]
    /\ pend' = [t \in Threads |-> <<>>]
    /\ UNCHANGED <<storeVars, published, log, req, ci, compose, attempts, histVars,
                   logVars, faults>>
    /\ UNCHANGED <<backend, taken, bus, slept, retry, times, scan, lock, hook>>

\* The process stops and is started again: _cached_composes (events.py 36) and
\* the queue of _executor (messaging.py 36) start empty, the requests in flight
\* end without a response and their open transactions are rolled back; the
\* database keeps what was committed.
Crash ==
    /\ InMemory # <<>>
    /\ lost' = lost \o InMemory
    /\ cached_composes' = <<>>
    /\ emitted' = <<>>
    /\ taken' = Len(Submitted)
    /\ pc' = [t \in Threads |-> IF pc[t] = "idle" THEN "idle" ELSE "done"]
    /\ res' = [t \in Threads |->
                 IF pc[t] \in {"idle", "done"} THEN res[t]
                 ELSE [status |-> "stopped", detail |-> NoId]]
    /\ pend' = [t \in Threads |-> <<>>]
    /\ UNCHANGED <<storeVars, published, log, req, ci, compose, attempts, histVars,
                   logVars, faults>>
    /\ UNCHANGED <<backend, bus, slept, retry, times, scan, lock, hook>>

CrashNext ==
    \/ \E t \in Threads :
          \/ BeginPatch(t)
          \/ PatchFlush(t)
          \/ PatchDbCommit(t)
          \/ PatchDrain(t)
    \/ WorkerRun
    \/ Crash

CrashSpec == MsgInit /\ [][CrashNext]_vars

\* ------------------------------------------------------------- _retry_with_backoff
MaxRetries == 3
MaxDelay == 2
MaxMultiplier == 3

\* func fails on its first k calls, each time with an exception of its own, and
\* returns "result" from then on.
FailsThenReturns(k, calls) ==
    [i \in 1..calls |-> IF i <= k THEN Fails(<<"error", i>>, 0) ELSE Returns("result")]

\* Any arguments of _retry_with_backoff and any number of failures of func.
RetryInit ==
    /\ InitService
    /\ backend = "rhmsg"
    /\ \E m \in 0..MaxRetries, d \in 1..MaxDelay, b \in 1..MaxMultiplier,
          k \in 0..(MaxRetries + 1) :
          retry = [status |-> "called", max_retries |-> m, initial_delay |-> d,
                   backoff_multiplier |-> b, k |-> k]

\* The call runs to its end.
RetryCall ==
    /\ retry.status = "called"
    /\ retry' = [status |-> "done", max_retries |-> retry.max_retries,
                 initial_delay |-> retry.initial_delay,
                 backoff_multiplier |-> retry.backoff_multiplier, k |-> retry.k,
                 out |-> retry_with_backoff(
                             FailsThenReturns(retry.k, retry.max_retries + 1),
                             retry.max_retries, retry.initial_delay,
                             retry.backoff_multiplier)]
    /\ UNCHANGED <<storeVars, eventVars, threadVars, histVars, logVars, faults,
                   backend, taken, bus, slept, times, scan, procVars>>

RetryNext == RetryCall

RetrySpec == RetryInit /\ [][RetryNext]_vars

\* ------------------------------------------------------------- retag_stale_composes
\* The characters of the names that occur in audit messages; the word
\* "requested" is kept as one piece.
Spell(name) ==
    CASE name = "a-requested" -> <<"a", "-", "requested">>
      [] name = "a_requested" -> <<"a", "_", "requested">>
      [] name = "p-requested" -> <<"p", "-", "requested">>
      [] OTHER -> <<name>>

\* "requested" in tag.name
Requested(name) == \E i \in 1..Len(Spell(name)) : Spell(name)[i] = "requested"

\* SQL LIKE without an escape character: "_" in the pattern stands for any one
\* character of the text.
Like(pattern, text) ==
    /\ Len(Spell(pattern)) = Len(Spell(text))
    /\ \A i \in 1..Len(Spell(pattern)) : Spell(pattern)[i] \in {"_", Spell(text)[i]}

\* ComposeChange.message.contains('"' + tag.name + '"'): LIKE '%"name"%' against
\* 'User "<user>" added "<tag>" tag.', whose quoted parts are the user and the tag.
Contains(message, name) ==
    /\ message # NoId
    /\ Like(name, message[2]) \/ Like(name, message[4])

\* The rows of the query at models.py 765-770.
TaggedRows(id, name) ==
    {i \in 1..Len(compose_changes) :
        /\ compose_changes[i].compose_id = id
        /\ compose_changes[i].action = "tagged"
        /\ Contains(compose_changes[i].message, name)}

\* .order_by(ComposeChange.time.desc()).first(): the index of the row, 0 for None.
last_change(id, name) ==
    IF TaggedRows(id, name) = {} THEN 0
    ELSE CHOOSE i \in TaggedRows(id, name) :
            \A j \in TaggedRows(id, name) : times[i] >= times[j]

\* datetime.utcnow() during the scan, the times of the rows before it, and the
\* timeouts it is called with.
Clock == 10
RowTimes == {2, 5, 8}
Timeouts == {2, 5}
RequestedTags == <<"a-requested", "a_requested">>

\* self.tags of compose id, in the order of the association rows.
RECURSIVE self_tags(_, _)
self_tags(rels, id) ==
    IF rels = <<>> THEN <<>>
    ELSE (IF Head(rels).compose_id = id
          THEN <<tags[CHOOSE i \in 1..Len(tags) : tags[i].id = Head(rels).tag_id].name>>
          ELSE <<>>) \o self_tags(Tail(rels), id)

\* The tables before the scan: the first compose carries any of the three tags,
\* each put on by Compose.tag at one of RowTimes, in the order of these times;
\* the first tag may have been
\* renamed since by PATCH /tags/<id> (views.py 881-896), which leaves the audit
\* messages as they were.
RetagTables ==
    \E on \in [1..(Len(RequestedTags) + 1) -> {0} \cup RowTimes],
       renamed \in {InitTag.name, "p-requested"} :
        LET ids == CHOOSE o \in Orders({i \in 1..3 : on[i] # 0}) :
                       \A a \in 1..Len(o), b \in 1..Len(o) :
                           a < b => \/ on[o[a]] < on[o[b]]
                                    \/ on[o[a]] = on[o[b]] /\ o[a] < o[b]
            names == <<InitTag.name>> \o RequestedTags
        IN /\ composes = InitComposes
           /\ parent_links = {}
           /\ users = InitUsers
           /\ tags = [i \in 1..3 |->
                        [InitTag EXCEPT !.id = i,
                                        !.name = IF i = 1 THEN renamed ELSE names[i]]]
           /\ tags_to_composes = [k \in 1..Len(ids) |->
                                    [compose_id |-> GoodId, tag_id |-> ids[k]]]
           /\ compose_changes =
                 << CreatedRow(GoodId, "odcs", NULL),
                    CreatedRow(create_compose_id(LegacyCi), "odcs", NULL) >>
                 \o [k \in 1..Len(ids) |->
                       ComposeChangeRow(GoodId, "tagged", "odcs",
                           TagMessage("odcs", "added", names[ids[k]]), NULL)]
           /\ times = <<0, 0>> \o [k \in 1..Len(ids) |-> on[ids[k]]]
           /\ grants = [p \in Perms |-> [users |-> <<>>, groups |-> <<>>]]
           /\ tag_changes = [i \in 1..3 |-> TagChangeRow(i, "created", "admin", NoId, NULL)]
           /\ compose_muts =
                 << Mut(GoodId, "created", "init"),
                    Mut(create_compose_id(LegacyCi), "created", "init") >>
                 \o [k \in 1..Len(ids) |-> Mut(GoodId, "tagged", "init")]
           /\ tag_muts = [i \in 1..3 |-> Mut(i, "created", "init")]

RetagInit == RetagTables /\ InitThreads /\ backend = "rhmsg" /\ retry = NoRetry

\* The tag's own most recent "tagged" row is older than timeout.
OwnStale(id, name, timeout) ==
    LET own == {i \in 1..Len(compose_changes) :
                   /\ compose_changes[i].compose_id = id
                   /\ compose_changes[i].action = "tagged"
                   /\ compose_changes[i].message[4] = name}
    IN own # {} /\ \A i \in own : Clock - times[i] > timeout

\* The call compose.retag_stale_composes(logged_user, timeout): line 762 copies
\* self.tags.  before and stale record the tags at the call, for the properties.
BeginRetag(t) ==
    /\ Arrive(t)
    /\ scan.status = "none"
    /\ \E timeout \in Timeouts :
         scan' = [status |-> "running", by |-> t, id |-> GoodId, timeout |-> timeout,
                  todo |-> self_tags(tags_to_composes, GoodId), yielded |-> <<>>,
                  before |-> self_tags(tags_to_composes, GoodId),
                  stale |-> SelectSeq(self_tags(tags_to_composes, GoodId),
                               LAMBDA n : Requested(n) /\ OwnStale(GoodId, n, timeout))]
    /\ req' = [req EXCEPT ![t] = [op |-> "retag", id |-> GoodId, user |-> "odcs",
                                  user_data |-> NULL]]
    /\ pc' = [pc EXCEPT ![t] = "r_next"]
    /\ UNCHANGED <<storeVars, eventVars, ci, compose, attempts, res, pend, alone,
                   logVars, faults>>
    /\ UNCHANGED <<backend, taken, bus, slept, retry, times, procVars>>

\* Lines 762-774 and 782: the next tag of the copy; the generator is exhausted
\* when none is left.
RetagNextTag(t) ==
    /\ pc[t] = "r_next"
    /\ IF scan.todo = <<>>
       THEN /\ scan' = [scan EXCEPT !.status = "done"]
            /\ Raise(t, "OK", scan.id)
       ELSE LET name == Head(scan.todo)
                last == last_change(scan.id, name)
            IN IF ~Requested(name)
               THEN /\ scan' = [scan EXCEPT !.todo = Tail(@)]
                    /\ UNCHANGED <<pc, res>>
               ELSE IF last = 0
               THEN /\ scan' = [scan EXCEPT !.status = "done"]
                    /\ Raise(t, "AttributeError", scan.id)
               ELSE IF Clock - times[last] > scan.timeout
               THEN /\ pc' = [pc EXCEPT ![t] = "r_untag"]
                    /\ UNCHANGED <<scan, res>>
               ELSE /\ scan' = [scan EXCEPT !.todo = Tail(@),
                                            !.yielded = Append(@, name)]
                    /\ UNCHANGED <<pc, res>>
    /\ UNCHANGED <<storeVars, eventVars, req, ci, compose, attempts, pend, histVars,
                   logVars, faults>>
    /\ UNCHANGED <<backend, taken, bus, slept, retry, times, procVars>>

\* db.session.commit() inside the scan: the rows get the time of the scan.
ScanCommit(t, stmts, action) ==
    LET S == Flush(Store, stmts, t)
    IN /\ Commit(t, stmts,
                 IF stmts = <<>> THEN <<>>
                 ELSE <<PatchMsg([action |-> action, id |-> scan.id,
                                  tag |-> Head(scan.todo),
                                  user_data |-> req[t].user_data])>>)
       /\ times' = times \o [k \in 1..(Len(S.compose_changes) - Len(compose_changes))
                               |-> Clock]

\* Lines 776-777: self.untag(...); db.session.commit().
RetagUntag(t) ==
    /\ pc[t] = "r_untag"
    /\ ScanCommit(t, Compose_untag(scan.id, req[t].user, Head(scan.todo),
                                   req[t].user_data), "untag")
    /\ pc' = [pc EXCEPT ![t] = "r_tag"]
    /\ UNCHANGED <<parent_links, req, ci, compose, attempts, res, pend, histVars,
                   faults>>
    /\ UNCHANGED <<backend, taken, bus, slept, retry, scan, procVars>>

\* Lines 780-782: self.tag(...); db.session.commit(); yield tag.
RetagTag(t) ==
    /\ pc[t] = "r_tag"
    /\ ScanCommit(t, Compose_tag(scan.id, req[t].user, Head(scan.todo),
                                 req[t].user_data), "tag")
    /\ scan' = [scan EXCEPT !.todo = Tail(@), !.yielded = Append(@, Head(scan.todo))]
    /\ pc' = [pc EXCEPT ![t] = "r_next"]
    /\ UNCHANGED <<parent_links, req, ci, compose, attempts, res, pend, histVars,
                   faults>>
    /\ UNCHANGED <<backend, taken, bus, slept, retry, procVars>>

\* ORDER BY compose_changes.time of the relationship Compose.changes (models.py
\* 554): every order of the rows in which the times do not decrease; the
\* database is free in the order of rows with equal times.
RECURSIVE ordered_by_time(_)
ordered_by_time(rows) ==
    IF rows = {} THEN {<<>>}
    ELSE UNION {{<<i>> \o o : o \in ordered_by_time(rows \ {i})} :
                   i \in {j \in rows : \A k \in rows : times[j] <= times[k]}}

\* compose.changes of the first compose is loaded: the indices of its rows in
\* the order the query returned them.
ReadChanges(t) ==
    /\ Arrive(t)
    /\ req' = [req EXCEPT ![t] = [op |-> "changes", id |-> GoodId]]
    /\ \E order \in ordered_by_time({i \in 1..Len(compose_changes) :
                                        compose_changes[i].compose_id = GoodId}) :
          Raise(t, "OK", order)
    /\ UNCHANGED <<storeVars, eventVars, ci, compose, attempts, pend, alone,
                   logVars, faults>>
    /\ UNCHANGED msgVars

RetagNext ==
    \E t \in Threads :
        \/ BeginRetag(t)
        \/ ReadChanges(t)
        \/ RetagNextTag(t)
        \/ RetagUntag(t)
        \/ RetagTag(t)

RetagSpec == RetagInit /\ [][RetagNext]_vars

\* ------------------------------------------------------------- properties
IsCreate(t) == req[t].op = "create"
CreatedOK(t) == IsCreate(t) /\ pc[t] = "done" /\ res[t].status = "OK"
RowOf(id) == composes[CHOOSE i \in 1..Len(composes) : composes[i].id = id]

\* C1: no two committed Compose rows share an id, and no two with a non-null
\* release_date_respin share it, under every interleaving of Compose.create calls.
C1_Unique ==
    \A i, j \in 1..Len(composes) :
        i # j =>
            /\ composes[i].id # composes[j].id
            /\ (composes[i].release_date_respin # NoId
                    => composes[i].release_date_respin # composes[j].release_date_respin)

\* Two overlapping creates have both inserted, one after a collision, and a new
\* row shares release, date and respin with the row whose key is null.
C1_Witness ==
    /\ Len(composes) = Len(InitComposes) + 2
    /\ \E t \in Threads : ~alone[t] /\ attempts[t] >= 2
    /\ \E i, j \in 1..Len(composes) :
          /\ i # j
          /\ composes[i].release_date_respin = NoId
          /\ ReleaseDateRespin(composes[i]) = composes[j].release_date_respin

SameStream(t, u) ==
    /\ req[t].ci.release = req[u].ci.release
    /\ req[t].ci.date = req[u].ci.date

\* C2 as stated: creates with the same release and date, one after the other,
\* get distinct ids and strictly increasing final respins.
C2_Original ==
    \A t \in Threads : CreatedOK(t) =>
        \A u \in prior[t] : (CreatedOK(u) /\ SameStream(t, u)) =>
            /\ compose[t] # compose[u]
            /\ ci[t].respin > ci[u].respin

\* C2 amended: the same holds when the calls also agree in the compose type
\* (everything the id is computed from but the respin) and the later call's
\* starting respin is not below the earlier call's.
C2_Increasing ==
    \A t \in Threads : CreatedOK(t) =>
        \A u \in prior[t] :
            (/\ CreatedOK(u) /\ SameStream(t, u)
             /\ req[t].ci.type = req[u].ci.type
             /\ req[u].ci.respin <= req[t].ci.respin) =>
                /\ compose[t] # compose[u]
                /\ ci[t].respin > ci[u].respin

\* A call that began after another of the same type had returned, at a starting
\* respin not below the other's, ended above it after a collision.
C2_Witness ==
    \E t \in Threads : \E u \in prior[t] :
        /\ CreatedOK(t) /\ CreatedOK(u) /\ SameStream(t, u)
        /\ req[t].ci.type = req[u].ci.type
        /\ req[u].ci.respin <= req[t].ci.respin
        /\ attempts[t] >= 2
        /\ ci[t].respin > ci[u].respin

\* C3: concurrent creates for the same release, date and starting respin all
\* return, and when all succeeded there is one new row per call and the final
\* respins are pairwise distinct.
C3_Rows ==
    (/\ \A t \in Threads : CreatedOK(t)
     /\ \A t, u \in Threads :
           SameStream(t, u) /\ req[t].ci.respin = req[u].ci.respin) =>
        /\ Len(composes) = Len(InitComposes) + Cardinality(Threads)
        /\ \A t, u \in Threads : t # u => ci[t].respin # ci[u].respin

C3_Concurrent ==
    /\ \A t \in Threads : (pc[t] # "idle") ~> (pc[t] = "done")
    /\ []C3_Rows

\* Both calls overlapped, collided and returned normally.
C3_Witness ==
    /\ \A t \in Threads : CreatedOK(t) /\ prior[t] = {}
    /\ \A t, u \in Threads : SameStream(t, u) /\ req[t].ci.respin = req[u].ci.respin
    /\ \E t \in Threads : ~alone[t] /\ attempts[t] >= 2

Free(c, r) ==
    ~ExistingCompose(create_compose_id([c EXCEPT !.respin = r]),
                     ReleaseDateRespin([c EXCEPT !.respin = r]))

\* The smallest respin from r0 on whose id and release_date_respin no row has.
RECURSIVE MinFree(_, _)
MinFree(c, r0) == IF Free(c, r0) THEN r0 ELSE MinFree(c, r0 + 1)

\* C4: without a concurrent creator, Compose.create inserts at the smallest free
\* respin r >= r0 after exactly r - r0 + 1 attempts, each retry raises the respin
\* by one, and the call returns.
C4_Step ==
    \A t \in Threads :
        /\ (pc[t] = "c_insert" /\ pc'[t] = "c_links" /\ alone[t]) =>
              /\ ci'[t].respin = MinFree(req[t].ci, req[t].ci.respin)
              /\ attempts'[t] = ci'[t].respin - req[t].ci.respin + 1
        /\ (pc[t] = "c_except" /\ pc'[t] = "c_insert") =>
              ci'[t].respin = ci[t].respin + 1

C4_SmallestFree ==
    /\ [][C4_Step]_vars
    /\ \A t \in Threads : InCreate(t) ~> (pc[t] = "done")

\* A lone create has inserted on its third attempt.
C4_Witness ==
    \E t \in Threads :
        /\ IsCreate(t) /\ alone[t] /\ pc[t] = "c_links" /\ attempts[t] = 3
        /\ \A u \in Threads \ {t} : pc[u] = "idle"

\* C5: the ComposeInfo a successful Compose.create returns carries the persisted
\* compose's respin and id.
C5_ReturnedCi ==
    \A t \in Threads : CreatedOK(t) =>
        /\ ci[t].respin = RowOf(compose[t]).respin
        /\ ci[t].id = RowOf(compose[t]).id

\* C6: a create whose parent or respin_of does not exist fails naming that id
\* before any insert: no row, link, audit row or event, and the respin unchanged.
C6_Step ==
    \A t \in Threads :
        (/\ IsCreate(t) /\ pc[t] # "done" /\ pc'[t] = "done"
         /\ \/ \E i \in 1..Len(req[t].parent_compose_ids) :
                    ~FindCompose(req[t].parent_compose_ids[i])
            \/ req[t].respin_of # NoId /\ ~FindCompose(req[t].respin_of)) =>
            /\ res'[t].status = "ValueError"
            /\ ~FindCompose(res'[t].detail[2])
            /\ attempts'[t] = 0
            /\ ci'[t].respin = req[t].ci.respin
            /\ UNCHANGED <<storeVars, eventVars>>

C6_FailsBeforeInsert == [][C6_Step]_vars

\* A create with a missing respin_of has failed while the other thread's create
\* was inserting rows.
C6_Witness ==
    \E t \in Threads :
        /\ IsCreate(t) /\ pc[t] = "done" /\ res[t].status = "ValueError"
        /\ req[t].respin_of = MissingId
        /\ Len(composes) > Len(InitComposes)

\* C7: an integrity error with no existing compose of the attempted id or
\* release_date_respin is re-raised: no retry, no respin change, no row.
C7_Step ==
    \A t \in Threads :
        (/\ pc[t] = "c_except"
         /\ ~ExistingCompose(create_compose_id(ci[t]), ReleaseDateRespin(ci[t]))
         /\ pc'[t] # pc[t]) =>
            /\ pc'[t] = "done"
            /\ res'[t].status = "IntegrityError"
            /\ ci'[t] = ci[t]
            /\ attempts'[t] = attempts[t]
            /\ ~FindCompose(create_compose_id(ci[t]))'
            /\ composes' = composes

C7_Reraised == [][C7_Step]_vars

\* The error was re-raised on the second attempt, after one confirmed collision.
C7_Witness ==
    \E t \in Threads :
        /\ pc[t] = "done" /\ res[t].status = "IntegrityError"
        /\ attempts[t] = 2
        /\ ci[t].respin = req[t].ci.respin + 1

Succeeded(t) == pc[t] = "done" /\ res[t].status = "OK"

\* The actions of the audit vocabulary.
ComposeActions == {"created", "tagged", "untagged"}
TagActions == {"created"} \cup GrantActions

Count(seq, Test(_)) == Cardinality({i \in 1..Len(seq) : Test(seq[i])})

\* The request of thread t changed a compose's creation or tags, or a tag's grants.
ChangedState(t) ==
    \/ \E i \in 1..Len(compose_muts) :
          compose_muts[i].by = t /\ compose_muts[i].kind \in ComposeActions
    \/ \E i \in 1..Len(tag_muts) :
          tag_muts[i].by = t /\ tag_muts[i].kind \in GrantActions

\* The row describes the request of thread t: subject, action, user, message.
RowFits(t, row) ==
    LET r == req[t]
    IN CASE r.op = "create" ->
              /\ row.compose_id = compose[t] /\ row.action = "created"
              /\ row.user = r.builder /\ row.message = NoId
         [] r.op = "patch" ->
              /\ row.compose_id = r.id /\ row.user = r.user
              /\ row.action = (IF r.action = "tag" THEN "tagged" ELSE "untagged")
              /\ row.message =
                    TagMessage(r.user, IF r.action = "tag" THEN "added" ELSE "removed",
                               r.tag)
         [] r.op = "tag_patch" ->
              /\ row.tag_id = r.tag_id /\ row.action = r.action
              /\ row.user = r.logged
              /\ row.message \in {ActionMessage(r.action, "user", r.username),
                                  ActionMessage(r.action, "group", r.group)}

\* C8: after a successful create, tag, untag, grant or revoke that changed state
\* there is exactly one new change row, and its subject, action, user and message
\* are those of the operation.
C8_ExactlyOneRow ==
    \A t \in Threads :
        (/\ Succeeded(t)
         /\ req[t].op \in {"create", "patch", "tag_patch"}
         /\ ChangedState(t)) =>
            /\ Len(wrote[t]) = 1
            /\ RowFits(t, wrote[t][1])

\* C9: in every committed state the audit rows and the committed mutations match
\* one to one: per compose and per tag, as many rows of an action as mutations of
\* that kind.
C9_SameTransaction ==
    /\ \A id \in ComposeIds, a \in ComposeActions :
          Count(compose_changes, LAMBDA r : r.compose_id = id /\ r.action = a)
            = Count(compose_muts, LAMBDA m : m.subject = id /\ m.kind = a)
    /\ \A i \in 1..Len(tags), a \in TagActions :
          Count(tag_changes, LAMBDA r : r.tag_id = tags[i].id /\ r.action = a)
            = Count(tag_muts, LAMBDA m : m.subject = tags[i].id /\ m.kind = a)

\* C10: in every committed state every mutation of a compose (creation, tag,
\* untag, compose_url change) and of a tag (creation, grant, revoke, edit) has an
\* audit row of its own with that compose or tag as subject.
C10_EveryMutationAudited ==
    /\ \A id \in ComposeIds :
          Count(compose_changes, LAMBDA r : r.compose_id = id)
            >= Count(compose_muts, LAMBDA m : m.subject = id)
    /\ \A i \in 1..Len(tags) :
          Count(tag_changes, LAMBDA r : r.tag_id = tags[i].id)
            >= Count(tag_muts, LAMBDA m : m.subject = tags[i].id)

\* C11: the audit trail is append-only: every ComposeChange and TagChange row of
\* a committed state is there, unchanged and at its place, in the next one.
C11_Step ==
    /\ Len(compose_changes') >= Len(compose_changes)
    /\ \A i \in 1..Len(compose_changes) : compose_changes'[i] = compose_changes[i]
    /\ Len(tag_changes') >= Len(tag_changes)
    /\ \A i \in 1..Len(tag_changes) : tag_changes'[i] = tag_changes[i]

C11_AppendOnly == [][C11_Step]_vars

\* Both requests have appended audit rows, one to each trail, after the rows the
\* store began with.
C11_Witness ==
    /\ \A t \in Threads : Succeeded(t) /\ Len(wrote[t]) >= 1
    /\ Len(compose_changes) > 3
    /\ Len(tag_changes) > 2

IsTagCall(r) == r.op = "patch" /\ r.action \in {"tag", "untag"}

\* C12: tag on a compose that carries the tag and untag on one that does not
\* return True, leave nothing to commit, and the commit that follows changes no
\* tag set and adds no audit row; a second identical call right after the first
\* changes nothing.
C12_Step ==
    \A t \in Threads :
        /\ (/\ pc[t] = "idle" /\ pc'[t] = "p_commit" /\ IsTagCall(req'[t])
            /\ get_by_name(req'[t].tag) # 0
            /\ HasTag(req'[t].id, get_by_name(req'[t].tag))
                  = (req'[t].action = "tag")) =>
              /\ pend'[t] = <<>>
              /\ req'[t].via = "method" => req'[t].returned
        /\ (/\ pc[t] = "p_commit" /\ pc'[t] = "done" /\ IsTagCall(req[t])
            /\ pend[t] = <<>>) =>
              /\ res'[t].status = "OK"
              /\ wrote'[t] = <<>>
              /\ UNCHANGED <<tags_to_composes, compose_changes, compose_muts>>

C12_Twice ==
    \A t \in Threads : \A u \in prior[t] :
        (/\ Succeeded(t) /\ Succeeded(u) /\ IsTagCall(req[t]) /\ IsTagCall(req[u])
         /\ req[t].id = req[u].id /\ req[t].action = req[u].action
         /\ req[t].tag = req[u].tag) =>
            /\ wrote[t] = <<>>
            /\ \A i \in 1..Len(compose_muts) : compose_muts[i].by # t

C12_Idempotent == [][C12_Step]_vars /\ []C12_Twice

\* A tag call has added the tag and written its row; the same call made after
\* it returned has succeeded without a row.
C12_Witness ==
    \E t \in Threads : \E u \in prior[t] :
        /\ Succeeded(t) /\ Succeeded(u) /\ IsTagCall(req[t]) /\ IsTagCall(req[u])
        /\ req[t].id = req[u].id /\ req[t].action = "tag" /\ req[u].action = "tag"
        /\ req[t].tag = req[u].tag
        /\ Len(wrote[u]) = 1 /\ wrote[t] = <<>>
        /\ HasTag(req[t].id, get_by_name(req[t].tag))

\* C13: Compose.tag and Compose.untag called with the name of a tag that does
\* not exist return False and change nothing: the call leaves no pending
\* statement, and across the caller's commit the tag sets, the audit trail and
\* the staged-event buffer stay as they were and nothing is published.
C13_Step ==
    \A t \in Threads :
        /\ (/\ pc[t] = "idle" /\ pc'[t] = "p_commit" /\ IsTagCall(req'[t])
            /\ req'[t].via = "method"
            /\ get_by_name(req'[t].tag) = 0) =>
              /\ ~req'[t].returned
              /\ pend'[t] = <<>>
              /\ UNCHANGED <<storeVars, eventVars>>
        /\ (/\ pc[t] = "p_commit" /\ pc'[t] = "done" /\ IsTagCall(req[t])
            /\ req[t].via = "method" /\ ~req[t].returned) =>
              /\ wrote'[t] = <<>>
              /\ UNCHANGED <<storeVars, eventVars, compose_muts>>

C13_MissingTag == [][C13_Step]_vars

\* A direct call naming a tag that does not exist has returned False and its
\* caller has committed.
C13_Witness ==
    \E t \in Threads :
        /\ pc[t] = "done" /\ IsTagCall(req[t]) /\ req[t].via = "method"
        /\ ~req[t].returned /\ get_by_name(req[t].tag) = 0
        /\ req[t].action = "untag"
        /\ wrote[t] = <<>>

\* The grant and revoke rows and the grant-set changes of the request of thread t.
GrantRows(t) == Count(wrote[t], LAMBDA r : r.action \in GrantActions)
GrantChanges(t) == Count(tag_muts, LAMBDA m : m.by = t /\ m.kind \in GrantActions)

\* C14: a successful grant or revoke appends one TagChange row for each change
\* it makes to a grant set and none when it changes no grant set: granting to an
\* identity that holds the permission, or revoking from one that does not,
\* leaves the audit trail as it was.
C14_GrantIdempotent ==
    \A t \in Threads :
        (Succeeded(t) /\ req[t].op = "tag_patch" /\ req[t].action \in GrantActions) =>
            GrantRows(t) = GrantChanges(t)

NoDuplicates(seq) == \A i, j \in 1..Len(seq) : seq[i] = seq[j] => i = j

\* C15: under every interleaving of grants and revokes, no user is twice among a
\* tag's taggers or untaggers and no group twice among its tagger_groups or
\* untagger_groups.
C15_NoDuplicateGrants ==
    \A p \in Perms : \A k \in {"users", "groups"} : NoDuplicates(grants[p][k])

\* Two requests granted the same permission to the same identity at the same
\* time; one was committed and the other refused.
C15_Witness ==
    \E t, u \in Threads :
        /\ t # u
        /\ req[t].op = "tag_patch" /\ req[u].op = "tag_patch"
        /\ req[t].action = "add_tagger" /\ req[u].action = "add_tagger"
        /\ req[t].username = "bob" /\ req[u].username = "bob"
        /\ Succeeded(t)
        /\ pc[u] = "done" /\ res[u].status = "ValueError"
        /\ HasGrant("tagger", "users", "bob", 1)

IsUserGrant(r) == r.op = "tag_patch" /\ r.action # NULL /\ IsAdd(r.action) /\ r.username # NULL

\* C16: add_tagger and add_untagger for a username without a User record create
\* the User and go on without an error (the grant does not fail for the missing
\* record), and once the caller's commit has succeeded the user is in the grant
\* set, unless a concurrent request revoked the grant.
C16_Step ==
    \A t \in Threads :
        (/\ pc[t] = "g_user" /\ pc'[t] # "g_user"
         /\ IsUserGrant(req[t])
         /\ req[t].username \notin users
         /\ FlushError(t, pend[t]) = NULL) =>
            /\ req[t].username \in users'
            /\ pc'[t] \in {"g_group", "g_commit"}
            /\ Has(pend'[t], GrantStmt(t, "insert_grant", "users", req[t].username))

C16_Granted ==
    \A t \in Threads :
        (/\ Succeeded(t) /\ IsUserGrant(req[t])
         /\ \A u \in Threads \ {t} :
               ~(req[u].op = "tag_patch" /\ req[u].action # NULL /\ ~IsAdd(req[u].action))) =>
            /\ req[t].username \in users
            /\ HasGrant(PermOf(req[t].action), "users", req[t].username, req[t].tag_id)

C17_Annotation ==
    \A t \in Threads :
        (/\ Succeeded(t) /\ req[t].op = "tag_patch" /\ req[t].via = "view"
         /\ req[t].action \in GrantActions) =>
            /\ \A i \in 1..Len(wrote[t]) : wrote[t][i].user_data = req[t].data.user_data
            /\ \A i \in 1..Len(wrote[t]) :
                  wrote[t][i].message = ActionMessage(req[t].action, "user", req[t].username)
            /\ req[t].data.user_data # NULL =>
                  \A p \in Perms :
                      ~HasGrant(p, "groups", req[t].data.user_data, req[t].tag_id)

Inserted(t) ==
    /\ IsCreate(t)
    /\ \/ pc[t] \in {"c_links", "c_links_f", "c_audit"}
       \/ Succeeded(t)

\* C18: once Compose.create has committed its compose, whatever its parents,
\* respin_of and collisions on the way, exactly one compose-created event with
\* the final compose id has been handed to the publisher and none is left in
\* the buffer; and every compose-created event, staged or handed over, is that
\* of a committed compose or of an insert that went through and awaits its
\* COMMIT: a failed attempt stages none.
C18_OneCreatedEvent ==
    /\ \A t \in Threads :
          Inserted(t) =>
              /\ Count(Handed, LAMBDA m : m = Msg("compose-created", compose[t])) = 1
              /\ Count(Staged, LAMBDA m : m = Msg("compose-created", compose[t])) = 0
              /\ Succeeded(t) => compose[t] = create_compose_id(ci[t])
    /\ \A i \in 1..Len(Handed \o Staged) :
          LET m == (Handed \o Staged)[i]
          IN m.event = "compose-created" =>
                \/ FindCompose(m.compose)
                \/ \E u \in Threads :
                      pc[u] = "c_insert_f" /\ m.compose = create_compose_id(ci[u])
    /\ \A i, j \in 1..Len(Handed \o Staged) :
          ((Handed \o Staged)[i].event = "compose-created"
              /\ (Handed \o Staged)[i] = (Handed \o Staged)[j]) => i = j

\* Both threads created a compose with links, one after a respin collision, and
\* both creates returned.
C18_Witness ==
    /\ \A t \in Threads : IsCreate(t) /\ Succeeded(t)
    /\ \E t \in Threads : attempts[t] >= 2 /\ ~alone[t]
    /\ \E t \in Threads : req[t].parent_compose_ids # <<>>
    /\ \E t \in Threads : req[t].respin_of # NoId
    /\ Count(Handed, LAMBDA m : m.event = "compose-created") = 2

\* The request of thread t added a tag to its compose, or removed one.
ChangedTags(t) ==
    /\ Succeeded(t) /\ IsTagCall(req[t])
    /\ \E i \in 1..Len(compose_muts) :
          /\ compose_muts[i].by = t
          /\ compose_muts[i].subject = req[t].id
          /\ compose_muts[i].kind = (IF req[t].action = "tag" THEN "tagged" ELSE "untagged")

EventOf(action) == IF action = "tag" THEN "compose-tagged" ELSE "compose-untagged"

\* C19: a committed tag() that added a tag has had exactly one event handed to
\* the publisher for its compose and tag: a compose-tagged event with the tag's
\* name and the annotation of the call as user_data; a committed untag() that
\* removed a tag likewise one compose-untagged event; none is left staged. The
\* change row written in the same transaction does not alter this.
C19_OneTagEvent ==
    \A t \in Threads :
        ChangedTags(t) =>
            /\ Count(Handed, LAMBDA m :
                    /\ m.compose = req[t].id
                    /\ m.event \in {"compose-tagged", "compose-untagged"}
                    /\ m.tag = req[t].tag
                    /\ m.event = EventOf(req[t].action)) = 1
            /\ Count(Handed, LAMBDA m :
                    m = [event |-> EventOf(req[t].action), compose |-> req[t].id,
                         tag |-> req[t].tag, user_data |-> req[t].user_data]) = 1
            /\ Count(Staged, LAMBDA m :
                    m.compose = req[t].id /\ m.event = EventOf(req[t].action)) = 0
            /\ Len(wrote[t]) = 1

\* One request tagged a compose with an annotation and the other untagged a
\* compose; both committed.
C19_Witness ==
    \E t, u \in Threads :
        /\ ChangedTags(t) /\ req[t].action = "tag" /\ req[t].user_data = "ud"
        /\ ChangedTags(u) /\ req[u].action = "untag"
        /\ Count(Handed, LAMBDA m : m.event = "compose-tagged") = 1
        /\ Count(Handed, LAMBDA m : m.event = "compose-untagged") = 1

\* The events the flush of the open transaction of thread t staged.
StagedBy(t) ==
    IF pc[t] = "c_insert_f" THEN {Msg("compose-created", create_compose_id(ci[t]))}
    ELSE IF pc[t] = "c_links_f" THEN {Msg("compose-changed", id) : id \in LinkDirty(t)}
    ELSE IF pc[t] = "p_commit_f" /\ pend[t] # <<>> THEN {PatchMsg(req[t])}
    ELSE {}

\* C20: an event is handed to the publisher only after the transaction whose
\* flush staged it has committed: no step hands over, in its batch, an event of
\* a thread whose transaction is still open after the step.
C20_Step ==
    published' # published =>
        \A t \in Threads :
            Open(t)' =>
                \A i \in 1..Len(published'[Len(published')]) :
                    published'[Len(published')][i] \notin StagedBy(t)'

C20_PublishedAfterCommit == [][C20_Step]_vars

\* a and b hold the same messages, each as often in one as in the other.
SameMessages(a, b) ==
    /\ Len(a) = Len(b)
    /\ \A i \in 1..Len(a) :
          Count(a, LAMBDA m : m = a[i]) = Count(b, LAMBDA m : m = a[i])

\* C21: under every interleaving of the after_flush and after_commit hooks of
\* concurrent transactions, the buffer holds exactly the events staged since the
\* last drain, a drain hands all of them to messaging.publish in one batch, each
\* once, and leaves none behind, and a commit that finds the buffer empty hands
\* nothing over.
C21_Step ==
    /\ SameMessages(Staged, emitted)
    /\ published' # published =>
          /\ published' = Append(published, published'[Len(published')])
          /\ SameMessages(published'[Len(published')], emitted)
          /\ published'[Len(published')] # <<>>
          /\ Staged' = <<>>
    /\ \A t \in Threads :
          (Open(t) /\ ~Open(t)' /\ emitted = <<>>) => published' = published

C21_ExactlyOnce == [][C21_Step]_vars

\* A commit has handed over, in one batch, its own event and that of another
\* thread's flush; the other thread's commit found the buffer empty; both
\* requests succeeded.
C21_Witness ==
    /\ \A t \in Threads : Succeeded(t) /\ ChangedState(t)
    /\ Len(published) = 1
    /\ Len(published[1]) = 2
    /\ Staged = <<>>

\* C22: when start_to_publish_messages returns the buffer is empty, whether
\* messaging.publish returned or raised, so a batch holds only events staged
\* since the drain before it: none is handed to the publisher a second time.
C22_Step ==
    /\ \A t \in Threads : (Open(t) /\ ~Open(t)') => Staged' = <<>> /\ cached_composes' = <<>>
    /\ published' # published =>
          /\ cached_composes' = <<>>
          /\ SameMessages(published'[Len(published')], emitted)
          /\ publish_raises # NULL => Len(log') = Len(log) + 1

C22_BufferCleared == [][C22_Step]_vars

\* With a backend name that makes messaging.publish raise, two commits in a row
\* have each handed over their own event; the buffer is empty.
C22_Witness ==
    /\ publish_raises # NULL
    /\ Len(published) = 2
    /\ Len(log) = 2
    /\ \A t \in Threads : Succeeded(t)
    /\ cached_composes = <<>>
    /\ \A i \in 1..Len(published[1]) : published[1][i] \notin
          {published[2][j] : j \in 1..Len(published[2])}

\* Some call of _send has put the whole batch idx on the bus.
SentWhole(b, idx) ==
    \E n \in 1..(DefaultMaxRetries + 1) :
        Count(b, LAMBDA s : s.batch = idx /\ s.call = n) = Len(Submitted[idx])

\* C23: no failure of the publication path reaches the committing caller or
\* the committed rows. The commit that triggers publication returns normally
\* with its rows committed, also when messaging.publish raises for an unknown
\* backend, which is logged; a send that raises on the worker, up to the
\* exhaustion of its retries, is logged there and changes neither a request's
\* outcome nor the store, and the worker goes on.
C23_Step ==
    /\ \A t \in Threads :
          (pc[t] = "p_commit_f" /\ pc'[t] = "done") =>
              /\ res'[t].status = "OK"
              /\ composes' = Flush(Store, pend[t], t).composes
              /\ compose_changes' = Flush(Store, pend[t], t).compose_changes
              /\ tags_to_composes' = Flush(Store, pend[t], t).tags_to_composes
              /\ (published' # published /\ publish_raises # NULL) =>
                    log' = Append(log, "Cannot publish message to bus.")
    /\ taken' # taken =>
          /\ taken' = taken + 1
          /\ UNCHANGED <<storeVars, pc, res, cached_composes, published>>
          /\ ~SentWhole(bus', taken') =>
                log' = Append(log, "Failed to publish messages to message broker.")

C23_FailuresSwallowed == [][C23_Step]_vars

\* Both requests have committed and returned normally; the send of a batch
\* failed on every attempt, which was logged, and the next batch was sent.
C23_Witness ==
    /\ \A t \in Threads : Succeeded(t) /\ ChangedState(t)
    /\ taken = 2
    /\ ~SentWhole(bus, 1)
    /\ SentWhole(bus, 2)
    /\ log = <<"Failed to publish messages to message broker.">>
    /\ Len(slept) = DefaultMaxRetries

\* initial_delay * backoff_multiplier^i
RECURSIVE Delay(_, _, _)
Delay(initial_delay, backoff_multiplier, i) ==
    IF i = 0 THEN initial_delay
    ELSE backoff_multiplier * Delay(initial_delay, backoff_multiplier, i - 1)

\* C24: _retry_with_backoff terminates. When func fails k <= max_retries times
\* and then returns, func is called k + 1 times, there are k sleeps of
\* initial_delay * backoff_multiplier^i for i = 0..k-1, growing when the
\* multiplier is above 1, and func's result is returned; when func fails on
\* every call it is called max_retries + 1 times, there are max_retries sleeps,
\* and the exception of its last call is raised.
C24_Retry ==
    retry.status = "done" =>
        LET k == retry.k
            m == retry.max_retries
            out == retry.out
            n == IF k <= m THEN k ELSE m
        IN /\ out.calls = (IF k <= m THEN k + 1 ELSE m + 1)
           /\ Len(out.sleeps) = n
           /\ \A i \in 1..n :
                 out.sleeps[i] = Delay(retry.initial_delay, retry.backoff_multiplier, i - 1)
           /\ retry.backoff_multiplier > 1 =>
                 \A i \in 1..(n - 1) : out.sleeps[i] < out.sleeps[i + 1]
           /\ k <= m => out.status = "returned" /\ out.value = "result"
           /\ k > m => out.status = "raised" /\ out.value = <<"error", m + 1>>

\* func failed twice and then returned: three calls and two growing sleeps.
C24_Witness ==
    /\ retry.status = "done"
    /\ retry.k = 2 /\ retry.max_retries = 3 /\ retry.backoff_multiplier = 2
    /\ retry.out.calls = 3
    /\ retry.out.sleeps = <<retry.initial_delay, 2 * retry.initial_delay>>
    /\ retry.out.status = "returned"

\* C25: messaging.publish returns without waiting for the send: no step of a
\* request thread puts a message on the bus, sleeps, or runs a submitted send;
\* sends and sleeps are the worker's; and every send that publish submitted is
\* eventually run by the worker.
C25_Step ==
    /\ (\E t \in Threads : pc'[t] # pc[t]) =>
          /\ bus' = bus /\ slept' = slept /\ taken' = taken
    /\ \A i \in 1..Len(bus') : bus'[i].by = "worker"
    /\ \A i \in 1..Len(slept') : slept'[i].by = "worker"

C25_Async ==
    /\ [][C25_Step]_vars
    /\ \A n \in 1..Cardinality(Threads) : (Len(Submitted) >= n) ~> (taken >= n)

\* A request has committed and returned while the send of its batch is still
\* waiting for the worker, which has run an earlier one.
C25_Witness ==
    /\ \A t \in Threads : Succeeded(t)
    /\ Len(Submitted) = 2
    /\ taken = 1
    /\ bus # <<>>

\* C26: messages reach the backend in emission order: the worker takes the
\* batches one after the other in the order of their commits, and a batch lists
\* its messages in the order in which their events were staged, also when
\* events of several composes were staged alternately.
C26_Step ==
    /\ published' # published =>
          published'[Len(published')] = emitted
    /\ taken' # taken =>
          /\ taken' = taken + 1
          /\ \A i \in 1..Len(bus') : i > Len(bus) => bus'[i].batch = taken'

C26_EmissionOrder == [][C26_Step]_vars

\* C27: no staged event is sent to the bus twice: for every batch and every
\* pattern of failing sends within the retries, producer.send is called at most
\* once for each message of the batch.
C27_AtMostOnce ==
    \A idx \in 1..Len(Submitted) :
        \A i \in 1..Len(Submitted[idx]) :
            Count(bus, LAMBDA s : s.batch = idx /\ s.msg = Submitted[idx][i])
              <= Count(Submitted[idx], LAMBDA m : m = Submitted[idx][i])

\* The audit rows and the events of retagging the tags names, one after another.
RECURSIVE RetagRows(_, _, _, _)
RetagRows(names, id, user, ud) ==
    IF names = <<>> THEN <<>>
    ELSE << ComposeChangeRow(id, "untagged", user,
                             TagMessage(user, "removed", Head(names)), ud),
            ComposeChangeRow(id, "tagged", user,
                             TagMessage(user, "added", Head(names)), ud) >>
         \o RetagRows(Tail(names), id, user, ud)

RECURSIVE RetagEvents(_, _, _)
RetagEvents(names, id, ud) ==
    IF names = <<>> THEN <<>>
    ELSE << [event |-> "compose-untagged", compose |-> id, tag |-> Head(names),
             user_data |-> ud],
            [event |-> "compose-tagged", compose |-> id, tag |-> Head(names),
             user_data |-> ud] >>
         \o RetagEvents(Tail(names), id, ud)

Range(seq) == {seq[i] : i \in 1..Len(seq)}

\* C28: once retag_stale_composes(actor, timeout) has been consumed, the audit
\* rows it appended are an untagged row and then a tagged row for each tag of the
\* compose whose name contains "requested" and whose own most recent tagged row
\* was older than timeout, and nothing for any other tag; the events handed to
\* publish are compose-untagged and then compose-tagged for the same tags and
\* nothing else; every such tag is on the compose, and the compose's tag set is
\* the one it had before the scan.
C28_RetagStale ==
    scan.status = "done" =>
        LET t == scan.by
        IN /\ res[t].status = "OK"
           /\ wrote[t] = RetagRows(scan.stale, scan.id, req[t].user, req[t].user_data)
           /\ Handed = RetagEvents(scan.stale, scan.id, req[t].user_data)
           /\ \A n \in Range(scan.stale) : HasTag(scan.id, get_by_name(n))
           /\ Range(self_tags(tags_to_composes, scan.id)) = Range(scan.before)

\* compose.parents, compose.children, compose.respin_of and compose.respun_by,
\* as the relationships of models.py 531-549 load them.
Parents(id) == {l[1] : l \in {k \in parent_links : k[2] = id}}
Children(id) == {l[2] : l \in {k \in parent_links : k[1] = id}}
RespinOf(id) ==
    {composes[i].respin_of_id :
        i \in {j \in 1..Len(composes) :
                  composes[j].id = id /\ composes[j].respin_of_id # NoId}}
RespunBy(id) ==
    {composes[i].id : i \in {j \in 1..Len(composes) : composes[j].respin_of_id = id}}

CreateSucceeded(t) ==
    req[t].op = "create" /\ pc[t] = "done" /\ res[t].status = "OK"

\* C29: after a successful Compose.create with parents P and respin_of R the new
\* compose's parents are exactly P, it is a child of every member of P, its
\* respin_of is R and it is among R's respun_by; and in every state children is
\* the inverse of parents, respun_by the inverse of respin_of, a compose has at
\* most one respin_of, and every linked id is the id of a compose.
C29_Links ==
    /\ \A t \in Threads :
          CreateSucceeded(t) =>
              /\ Parents(compose[t]) = Range(req[t].parent_compose_ids)
              /\ \A p \in Range(req[t].parent_compose_ids) : compose[t] \in Children(p)
              /\ RespinOf(compose[t]) =
                    (IF req[t].respin_of = NoId THEN {} ELSE {req[t].respin_of})
              /\ req[t].respin_of # NoId => compose[t] \in RespunBy(req[t].respin_of)
    /\ \A c \in ComposeIds, p \in ComposeIds :
          /\ (p \in Parents(c)) <=> (c \in Children(p))
          /\ (p \in RespinOf(c)) <=> (c \in RespunBy(p))
    /\ \A c \in ComposeIds : Cardinality(RespinOf(c)) <= 1
    /\ \A l \in parent_links : l[1] \in ComposeIds /\ l[2] \in ComposeIds
    /\ \A i \in 1..Len(composes) :
          composes[i].respin_of_id # NoId => composes[i].respin_of_id \in ComposeIds

\* A create with a parent and a respin_of has returned the new compose.
C29_Witness ==
    \E t \in Threads :
        /\ CreateSucceeded(t)
        /\ req[t].parent_compose_ids # <<>>
        /\ req[t].respin_of # NoId
        /\ compose[t] \in Children(GoodId)
        /\ compose[t] \in RespunBy(GoodId)

\* is_tagger / is_untagger of api_utils.py 255-290, or the admins role: the user
\* holds the grant, or one of the user's groups does.
MayTag(perm, user, tag_id) ==
    \/ HasGrant(perm, "users", user, tag_id)
    \/ \E grp \in g_groups(user) : HasGrant(perm, "groups", grp, tag_id)
    \/ has_role("admins", user)

\* C30: a tag or untag request through PATCH /composes/<id>, for a compose and a
\* tag that exist, goes on to Compose.tag / Compose.untag exactly when the user
\* is an individual tagger (untagger) of the tag, a member of one of its tagger
\* (untagger) groups, or an admin; otherwise it is answered Forbidden and leaves
\* the store, the audit rows and the events as they were.
C30_Step ==
    \A t \in Threads :
        (/\ pc[t] = "idle" /\ pc'[t] # "idle"
         /\ req'[t].op = "patch" /\ req'[t].via = "view"
         /\ req'[t].action \in {"tag", "untag"}
         /\ FindCompose(req'[t].id)
         /\ get_by_name(req'[t].tag) # 0)
        => LET perm == IF req'[t].action = "tag" THEN "tagger" ELSE "untagger"
               may == MayTag(perm, req'[t].user, get_by_name(req'[t].tag))
           IN /\ may <=> pc'[t] = "p_commit"
              /\ ~may => /\ pc'[t] = "done"
                         /\ res'[t].status = "Forbidden"
                         /\ UNCHANGED <<storeVars, eventVars, logVars>>

C30_TagPermission == [][C30_Step]_vars

\* Thread t reads or changes _cached_composes in this step.
Accesses(t) ==
    \/ pc[t] = "h_append" /\ hook'[t] # hook[t]
    \/ pc[t] = "h_keys" /\ pc'[t] # "h_keys"

\* C31: a thread reads, appends to, drains or clears the staged-event buffer
\* only while it holds _cache_lock; no thread reads the buffer while another
\* thread is inside the staging loop; and a drain never happens between two
\* appends of one flush, so it sees the events of a flush all or not at all.
C31_Step ==
    \A t \in Threads :
        /\ Accesses(t) => lock = t
        /\ Accesses(t) => \A u \in Threads \ {t} : pc[u] # "h_append"
        /\ published' # published => \A u \in Threads : pc[u] # "h_append"

C31_Locked == [][C31_Step]_vars

\* C32: when the after_flush hook has run, the buffer holds exactly one event for
\* every compose the flush touched, chosen by the first match of: id newly set,
\* compose-created; tags added, compose-tagged; tags removed, compose-untagged;
\* otherwise compose-changed; a compose that was created and tagged in the same
\* flush has the one event compose-created.
C32_Classified ==
    \A t \in Threads :
        pc[t] = "flushed" =>
            LET f == hook[t].flush
            IN /\ Len(emitted) = Len(f)
               /\ Staged = emitted
               /\ \A i \in 1..Len(f) :
                     /\ emitted[i].compose = f[i].compose
                     /\ emitted[i].event =
                           (CASE ~f[i].id_unchanged -> "compose-created"
                              [] f[i].id_unchanged /\ f[i].tags_added # <<>>
                                   -> "compose-tagged"
                              [] /\ f[i].id_unchanged /\ f[i].tags_added = <<>>
                                 /\ f[i].tags_deleted # <<>> -> "compose-untagged"
                              [] OTHER -> "compose-changed")
                     /\ (~f[i].id_unchanged /\ f[i].tags_added # <<>>)
                            => emitted[i].event = "compose-created"

\* The hook has staged the events of a flush of two composes, one of them
\* created and tagged in that flush.
C32_Witness ==
    \E t \in Threads :
        /\ pc[t] = "flushed"
        /\ Len(hook[t].flush) = 2
        /\ ~hook[t].flush[1].id_unchanged /\ hook[t].flush[1].tags_added # <<>>
        /\ Len(emitted) = 2
        /\ emitted[1].event = "compose-created"
        /\ emitted[2].event = "compose-untagged"

\* C33: while retag_stale_composes runs, every committed state shows each tag the
\* compose had at the start of the scan still on the compose: the untag and the
\* re-tag of a stale tag are one transaction.
C33_RetagAtomic ==
    scan.status = "running" =>
        \A n \in Range(scan.before) : HasTag(scan.id, get_by_name(n))

\* C34: before the first tag has been examined the scan has written nothing; when
\* retag_stale_composes has been consumed it has returned normally and has
\* yielded, once each and in the order of the snapshot taken at the start, the
\* tags of the compose whose name contains "requested", stale or not.
C34_LazyFinite ==
    /\ (scan.status = "running" /\ pc[scan.by] = "r_next" /\ scan.todo = scan.before)
          => wrote[scan.by] = <<>> /\ published = <<>>
    /\ scan.status = "done"
          => /\ res[scan.by].status = "OK"
             /\ scan.yielded = SelectSeq(scan.before, Requested)

\* C35: the rows of compose.changes come back in the order they were inserted,
\* also when rows carry the same time.
C35_InsertionOrder ==
    \A t \in Threads :
        (req[t].op = "changes" /\ pc[t] = "done")
        => \A a \in 1..Len(res[t].detail), b \in 1..Len(res[t].detail) :
              a < b => res[t].detail[a] < res[t].detail[b]

\* The requests whose flushed events are in the buffer of the running process.
Live == {t \in Threads : pc[t] \in {"p_commit_f", "p_committed"} /\ pend[t] # <<>>}

\* C36: when the process stops, the committed rows stay as they are and the
\* events it held in memory, staged but not drained or submitted but not sent,
\* are gone: a batch handed to publish later holds only events of requests of
\* the running process, and nothing of a lost batch is ever put on the bus.
C36_Step ==
    /\ lost' # lost
          => /\ UNCHANGED <<storeVars, logVars, bus, published>>
             /\ Staged' = <<>>
    /\ published' # published
          => LET batch == published'[Len(published')]
             IN /\ Len(batch) <= Cardinality(Live)
                /\ \A i \in 1..Len(batch) : \E t \in Live : batch[i] = PatchMsg(req[t])
    /\ \A i \in (Len(bus) + 1)..Len(bus') :
          \A j \in 1..Len(lost) : lost[j].batch # bus'[i].batch

C36_AtMostOnce == [][C36_Step]_vars

\* A request committed its rows, the process stopped before the drain, and after
\* the restart another request's event went to the bus.
C36_Witness ==
    \E t \in Threads, u \in Threads :
        /\ res[t].status = "stopped" /\ wrote[t] # <<>>
        /\ \E j \in 1..Len(lost) : lost[j].batch = 0
        /\ res[u].status = "OK" /\ wrote[u] # <<>>
        /\ bus # <<>>

\* The fields of a compose row that are fixed at creation.
Core(c) ==
    [id |-> c.id, date |-> c.date, respin |-> c.respin, type |-> c.type,
     release |-> c.release, release_date_respin |-> c.release_date_respin,
     builder |-> c.builder]

\* The ids of the tags a relation table puts on a compose.
TagsOn(rel, id) == {rel[i].tag_id : i \in {j \in 1..Len(rel) : rel[j].compose_id = id}}

\* C37: no step removes a compose row or changes the id, date, respin,
\* release_date_respin, type, release or builder of an existing one; a step of a
\* request other than Compose.create (tag, untag, retag_stale_composes, set_url,
\* a grant or a revoke, a tag creation or edit) adds no row and changes at most
\* the compose_url of a row; and the tag set of a compose changes only in a step
\* of a tag, untag or retag request on that very compose, and by one tag.
C37_Step ==
    /\ Len(composes') >= Len(composes)
    /\ \A i \in 1..Len(composes) : Core(composes'[i]) = Core(composes[i])
    /\ \A t \in Threads :
          pc'[t] # pc[t] /\ req'[t].op # "create"
             => /\ Len(composes') = Len(composes)
                /\ \A i \in 1..Len(composes) :
                      [composes'[i] EXCEPT !.compose_url = NULL]
                         = [composes[i] EXCEPT !.compose_url = NULL]
    /\ \A id \in ComposeIds :
          TagsOn(tags_to_composes', id) # TagsOn(tags_to_composes, id)
             => \E t \in Threads :
                   /\ pc'[t] # pc[t]
                   /\ req[t].id = id
                   /\ \/ req[t].op = "retag"
                      \/ req[t].op = "patch" /\ req[t].action \in {"tag", "untag"}
                   /\ \E n \in TagsOn(tags_to_composes, id)
                               \cup TagsOn(tags_to_composes', id) :
                         TagsOn(tags_to_composes', id) \in
                            {TagsOn(tags_to_composes, id) \cup {n},
                             TagsOn(tags_to_composes, id) \ {n}}
C37_Frame == [][C37_Step]_vars

\* A set_url and a tag or untag of two different composes have both committed.
C37_Witness ==
    \E t \in Threads, u \in Threads :
        /\ pc[t] = "done" /\ res[t].status = "OK" /\ req[t].op = "patch"
        /\ req[t].action = "set_url"
        /\ \E i \in 1..Len(composes) :
              composes[i].id = req[t].id /\ composes[i].compose_url = Http
        /\ pc[u] = "done" /\ res[u].status = "OK" /\ req[u].op = "patch"
        /\ req[u].action \in {"tag", "untag"} /\ req[u].id # req[t].id
        /\ \E i \in 1..Len(compose_muts) :
              compose_muts[i].by = u /\ compose_muts[i].subject = req[u].id

\* The number of audit rows of compose c with the given action whose message
\* names the tag tag_name.
Naming(c, action, tag_name) ==
    Cardinality({i \in 1..Len(compose_changes) :
                    /\ compose_changes[i].compose_id = c
                    /\ compose_changes[i].action = action
                    /\ compose_changes[i].message # NoId
                    /\ compose_changes[i].message[4] = tag_name})

\* The tagged rows minus the untagged rows of c naming the tag agree with the
\* tag relation of c.
Balanced(c, tag) ==
    Naming(c, "tagged", tag.name) - Naming(c, "untagged", tag.name)
       = IF HasTag(c, tag.id) THEN 1 ELSE 0

\* PATCH /tags/<id> has given a tag another name.
Renamed == \E i \in 1..Len(tags) : tags[i].id = InitTag.id /\ tags[i].name # InitTag.name

\* C38: in every committed state, for each compose c and tag t, the number of
\* tagged audit rows of c naming t minus the number of untagged audit rows of c
\* naming t is 1 when t is on c and 0 when it is not.
C38_Balance ==
    \A c \in ComposeIds : \A i \in 1..Len(tags) : Balanced(c, tags[i])

\* The same for the states in which no tag has been renamed.
C38_BalanceUnrenamed == ~Renamed => C38_Balance

\* C39: a send that still fails on its last retry does not end the worker. The
\* worker takes the submitted batches one at a time in the order of their
\* submission, whatever became of the batches before; a batch is exhausted only
\* after every batch before it was attempted; and once a batch is exhausted,
\* every batch submitted, before or after, is eventually attempted.
C39_Step ==
    taken' # taken =>
        /\ taken' = taken + 1
        /\ taken' <= Len(Submitted)
        /\ \A i \in (Len(bus) + 1)..Len(bus') : bus'[i].batch = taken'
        /\ \A i \in (Len(slept) + 1)..Len(slept') : slept'[i].batch = taken'

C39_WorkerSurvives ==
    /\ [][C39_Step]_vars
    /\ \A j \in 1..Cardinality(Threads) : \A n \in 1..Cardinality(Threads) :
          (j <= Len(Submitted) /\ Exhausted(j) /\ Len(Submitted) >= n) ~> (taken >= n)

\* The send of the first batch failed on all of its attempts; the worker then
\* took the second batch and put messages of it on the bus.
C39_Witness ==
    /\ Len(Submitted) = 2
    /\ taken = 2
    /\ Exhausted(1)
    /\ ~Exhausted(2)
    /\ \E i \in 1..Len(slept) : slept[i].batch = 1 /\ slept[i].delay = 4
    /\ \E i \in 1..Len(bus) : bus[i].batch = 2

\* The events staged or handed to the publisher so far.
Events == {Handed[i] : i \in 1..Len(Handed)} \cup {Staged[i] : i \in 1..Len(Staged)}

\* C40: whenever Compose.create raises, whatever the error, the store holds no
\* new Compose row, no new parent or respin_of link and no new audit row of the
\* call, and no compose-created event of it was staged or published.
C40_AllOrNothing ==
    \A t \in Threads :
        (pc[t] = "done" /\ req[t].op = "create" /\ res[t].status # "OK") =>
            /\ \A i \in 1..Len(compose_muts) : compose_muts[i].by # t
            /\ ~FindCompose(compose[t])
            /\ \A l \in parent_links : l[2] # compose[t]
            /\ wrote[t] = <<>>
            /\ Msg("compose-created", compose[t]) \notin Events
====
